---- MODULE Spec2Model ----
(***************************************************************************)
(* cloud9: the transactional object repository (package repo) and the     *)
(* resource handlers (package server) that use it.                        *)
(*                                                                         *)
(* Strings are sequences of character codes, so that strings.ToLower and  *)
(* the regular expressions of the handlers are computed, not assumed.     *)
(* Byte slices are sequences of numbers 0..255.  A bolt bucket is a       *)
(* record [kv, seq]: kv is a function from keys to values (its DOMAIN is  *)
(* the set of keys present) and seq is the bucket's sequence counter.     *)
(***************************************************************************)
EXTENDS Integers, Sequences, FiniteSets, TLC

VARIABLES
    db,        \* the committed content of meta.db: bucket name -> bucket
    wlock,     \* holder of bolt's single writer lock, or NoProc
    pc,        \* per goroutine: "idle", "ready", "intx", "done"
    req,       \* per goroutine: the request being handled
    tx,        \* per goroutine: the open repo.Tx (ot, writable, data)
    resp,      \* per goroutine: the response written so far
    seen,      \* per type, the ETags its clients have received for its records
    nreq,      \* requests received (transactions begun) and restarts so far
    epoch,     \* times the store was closed and opened again
    allocLog,  \* history: every value AllocateId returned, per type, in order
    commitLog, \* history: values AllocateId returned in committed Updates
    bornLog,   \* history: ids of the records that appeared in a commit, in order
    lastUpd,   \* history: the Update that returned last, until an Update begins
               \* or a Tx is called
    fn,        \* per goroutine: the calls fn has made on its Tx so far
    srv        \* the CloudServer: where Serve and its caller are, the listener,
               \* the goroutine that waits for a signal or a Stop, the callers
               \* of Stop, the repository handle

vars == <<db, wlock, pc, req, tx, resp, seen, nreq, epoch, allocLog, commitLog,
          bornLog, lastUpd, fn, srv>>

----------------------------------------------------------------------------
(* Bounds of the model. *)

\* AllocateId is not called once a bucket's sequence has reached MaxSeq.
MaxSeq == 2
\* Requests received (transactions begun) and restarts in one behaviour.
MaxReqs == 3
\* Calls the functions of the repository client make on their Tx in one behaviour.
MaxOps == 2
MaxOrderOps == 4

Procs == {"g1", "g2"}
NoProc == "none"

----------------------------------------------------------------------------
(* Strings. *)

Lower(c) == IF c \in 65..90 THEN c + 32 ELSE c

\* strings.ToLower, on the ASCII strings of the model
ToLower(s) == [i \in 1..Len(s) |-> Lower(s[i])]

IsLetter(c) == c \in 65..90 \/ c \in 97..122
IsDigit(c) == c \in 48..57
IsLowerAlnum(c) == IsDigit(Lower(c)) \/ Lower(c) \in 97..122
\* neither a control character nor outside \pL\pM\pN\pP\pS\pZ (ASCII)
IsGraphic(c) == c \in 32..126

\* the names, display names, e-mail addresses and URLs that requests carry
sAl == <<65, 108>>
sal == <<97, 108>>
sb1 == <<98, 49>>
s1a == <<49, 97>>
sD == <<68>>
sBell == <<7>>
sMail == <<97, 64, 98, 46, 99>>
sNoMail == <<97, 64, 98>>
sURL == <<104, 116, 116, 112, 58, 47, 47, 97, 46, 98>>
sNoURL == <<120>>
sDesc == <<100>>

----------------------------------------------------------------------------
(* repo: object types, errors, key encoding. *)

BLOB == "blob"
USER == "user"
GROUP == "group"
ObjectTypes == {BLOB, USER, GROUP}

requiredBuckets == <<"blob", "user", "user.byname", "group", "group.byname">>

ByName(ot) == ot \o ".byname"

NoError == [kind |-> "nil"]
NotFoundError(ot, id, name) == [kind |-> "NotFound", Type |-> ot, Id |-> id, Name |-> name]
DuplicateError(ot, existingId, desiredName) ==
    [kind |-> "Duplicate", Type |-> ot, ExistingId |-> existingId, DesiredName |-> desiredName]
\* bolt's errors for a write in a read-only transaction and for an empty key
ErrTxNotWritable == [kind |-> "ErrTxNotWritable"]
ErrKeyRequired == [kind |-> "ErrKeyRequired"]
\* Tx.Bucket returned nil (the type has no such bucket) and the call on it panicked
NilBucketPanic == [kind |-> "panic"]

RECURSIVE PutUint(_, _)
\* the n low-order bytes of v, most significant first
PutUint(n, v) == IF n = 0 THEN <<>> ELSE Append(PutUint(n - 1, v \div 256), v % 256)

RECURSIVE u64tobShort(_)
\* a big endian representation of v without the leading zero bytes
u64tobShort(v) == IF v = 0 THEN <<>> ELSE Append(u64tobShort(v \div 256), v % 256)

\* u64tob returns an 8-byte big endian representation of v.
u64tob(v) == PutUint(8, v)

RECURSIVE Uint(_)
\* binary.BigEndian.Uint64
Uint(b) == IF Len(b) = 0 THEN 0 ELSE Uint(SubSeq(b, 1, Len(b) - 1)) * 256 + b[Len(b)]

Panic == -1

btou64(b) ==
    LET newB == [i \in 1..8 |-> IF i <= 8 - Len(b) THEN 0 ELSE b[i - (8 - Len(b))]]
        b1 == IF Len(b) < 8 THEN newB ELSE b
    IN  IF Len(b1) > 8 THEN Panic ELSE Uint(b1)

----------------------------------------------------------------------------
(* bolt: buckets inside one transaction.  t is a repo.Tx: [ot, writable,   *)
(* data], data being the transaction's own view of all buckets.            *)

EmptyBucket == [kv |-> <<>>, seq |-> 0]

Has(b, k) == k \in DOMAIN b.kv

\* Bucket.Put on bucket `name` of the transaction
BucketPut(t, name, k, v) ==
    IF ~t.writable THEN [t |-> t, err |-> ErrTxNotWritable]
    ELSE IF Len(k) = 0 THEN [t |-> t, err |-> ErrKeyRequired]
    ELSE LET b == t.data[name]
             kv1 == [x \in DOMAIN b.kv \cup {k} |-> IF x = k THEN v ELSE b.kv[x]]
         IN  [t |-> [t EXCEPT !.data[name].kv = kv1], err |-> NoError]

\* Bucket.Delete: deleting an absent key is not an error
BucketDelete(t, name, k) ==
    IF ~t.writable THEN [t |-> t, err |-> ErrTxNotWritable]
    ELSE LET b == t.data[name]
             kv1 == [x \in DOMAIN b.kv \ {k} |-> b.kv[x]]
         IN  [t |-> [t EXCEPT !.data[name].kv = kv1], err |-> NoError]

\* Bucket.NextSequence: advances the bucket's counter inside the transaction
NextSequence(t, name) ==
    IF ~t.writable THEN [t |-> t, id |-> 0, err |-> ErrTxNotWritable]
    ELSE [t |-> [t EXCEPT !.data[name].seq = @ + 1],
          id |-> t.data[name].seq + 1, err |-> NoError]

RECURSIVE KeyLessFromEnd(_, _)
\* an order that compares the last bytes first
KeyLessFromEnd(a, b) ==
    IF Len(a) = 0 THEN Len(b) > 0
    ELSE IF Len(b) = 0 THEN FALSE
    ELSE IF a[Len(a)] # b[Len(b)] THEN a[Len(a)] < b[Len(b)]
    ELSE KeyLessFromEnd(SubSeq(a, 1, Len(a) - 1), SubSeq(b, 1, Len(b) - 1))

RECURSIVE KeyLess(_, _)
\* bytes.Compare(a, b) < 0: the order of a bucket's cursor
KeyLess(a, b) ==
    IF Len(a) = 0 THEN Len(b) > 0
    ELSE IF Len(b) = 0 THEN FALSE
    ELSE IF a[1] # b[1] THEN a[1] < b[1]
    ELSE KeyLess(Tail(a), Tail(b))

RECURSIVE SortedKeys(_)
\* the keys of a bucket in cursor order
SortedKeys(ks) ==
    IF ks = {} THEN <<>>
    ELSE LET m == CHOOSE k \in ks : \A o \in ks \ {k} : KeyLess(k, o)
         IN  <<m>> \o SortedKeys(ks \ {m})

----------------------------------------------------------------------------
(* repo.Tx: the operations of a transaction scoped to object type t.ot.     *)
(* Each returns the transaction after the call together with its results.   *)

\* Tx.ForEach with a callback that collects: the (id, value) pairs visited
TxForEach(t) ==
    LET b == t.data[t.ot]
        ks == SortedKeys(DOMAIN b.kv)
    IN  [i \in 1..Len(ks) |-> [id |-> btou64(ks[i]), v |-> b.kv[ks[i]]]]

\* AllocateId that takes the number of records plus one
TxAllocateIdCount(t) ==
    IF ~t.writable THEN [t |-> t, id |-> 0, err |-> ErrTxNotWritable]
    ELSE [t |-> t, id |-> Cardinality(DOMAIN t.data[t.ot].kv) + 1, err |-> NoError]

\* AllocateId on one sequence that all the types share
TxAllocateIdShared(t) ==
    IF ~t.writable THEN [t |-> t, id |-> 0, err |-> ErrTxNotWritable]
    ELSE [t |-> [t EXCEPT !.data = [n \in DOMAIN @ |->
                                       IF n \in ObjectTypes
                                       THEN [@[n] EXCEPT !.seq = t.data[t.ot].seq + 1]
                                       ELSE @[n]]],
          id |-> t.data[t.ot].seq + 1, err |-> NoError]

\* AllocateId that stores an empty record under the id it returns
TxAllocateIdReserves(t) ==
    LET res == NextSequence(t, t.ot)
    IN  IF res.err # NoError THEN res
        ELSE [t |-> BucketPut(res.t, t.ot, u64tob(res.id), <<>>).t, id |-> res.id,
              err |-> NoError]

TxAllocateId(t) == NextSequence(t, t.ot)

TxGet(t, id) ==
    LET b == t.data[t.ot]
        k == u64tob(id)
    IN  IF ~Has(b, k) THEN [v |-> <<>>, err |-> NotFoundError(t.ot, id, <<>>)]
        ELSE [v |-> b.kv[k], err |-> NoError]

\* Put that keeps a record the id already has
TxPutIfAbsent(t, id, v) ==
    IF Has(t.data[t.ot], u64tob(id)) THEN [t |-> t, err |-> NoError]
    ELSE BucketPut(t, t.ot, u64tob(id), v)

TxPut(t, id, v) == BucketPut(t, t.ot, u64tob(id), v)

\* Delete that does not look for the record first
TxDeleteSilent(t, id) == BucketDelete(t, t.ot, u64tob(id))

TxDelete(t, id) ==
    LET b == t.data[t.ot]
        k == u64tob(id)
    IN  IF ~Has(b, k) THEN [t |-> t, err |-> NotFoundError(t.ot, id, <<>>)]
        ELSE BucketDelete(t, t.ot, k)

\* Lookup that does not lowercase the name
TxLookupExact(t, name) ==
    LET b == t.data[ByName(t.ot)]
    IN  IF ByName(t.ot) \notin DOMAIN t.data THEN [id |-> 0, err |-> NilBucketPanic]
        ELSE IF ~Has(b, name) THEN [id |-> 0, err |-> NotFoundError(t.ot, 0, name)]
        ELSE [id |-> btou64(b.kv[name]), err |-> NoError]

TxLookup(t, name) ==
    LET lcname == ToLower(name)
        b == t.data[ByName(t.ot)]
    IN  IF ByName(t.ot) \notin DOMAIN t.data THEN [id |-> 0, err |-> NilBucketPanic]
        ELSE IF ~Has(b, lcname) THEN [id |-> 0, err |-> NotFoundError(t.ot, 0, name)]
        ELSE [id |-> btou64(b.kv[lcname]), err |-> NoError]

\* Associate that does not look for an entry first
TxAssociateOverwrite(t, id, name) ==
    IF ByName(t.ot) \notin DOMAIN t.data THEN [t |-> t, err |-> NilBucketPanic]
    ELSE BucketPut(t, ByName(t.ot), ToLower(name), u64tob(id))

TxAssociate(t, id, name) ==
    LET lcname == ToLower(name)
        b == t.data[ByName(t.ot)]
    IN  IF ByName(t.ot) \notin DOMAIN t.data THEN [t |-> t, err |-> NilBucketPanic]
        ELSE IF Has(b, lcname)
        THEN [t |-> t, err |-> DuplicateError(t.ot, btou64(b.kv[lcname]), name)]
        ELSE BucketPut(t, ByName(t.ot), lcname, u64tob(id))

\* Unassociate that reports a name without an entry
TxUnassociateStrict(t, name) ==
    IF ByName(t.ot) \notin DOMAIN t.data THEN [t |-> t, err |-> NilBucketPanic]
    ELSE IF ~Has(t.data[ByName(t.ot)], ToLower(name))
    THEN [t |-> t, err |-> NotFoundError(t.ot, 0, name)]
    ELSE BucketDelete(t, ByName(t.ot), ToLower(name))

TxUnassociate(t, name) ==
    IF ByName(t.ot) \notin DOMAIN t.data THEN [t |-> t, err |-> NilBucketPanic]
    ELSE BucketDelete(t, ByName(t.ot), ToLower(name))

----------------------------------------------------------------------------
(* server: the User and Group messages and their encodings.                 *)
(* The protobuf payload is the wire format: per non-zero field its key      *)
(* byte (number * 8 + wire type), then a varint, or a length and the bytes  *)
(* (ids and lengths of the model are below 128: one-byte varints).          *)

ZeroUser == [Id |-> 0, UserName |-> <<>>, DisplayName |-> <<>>, EMail |-> <<>>, URL |-> <<>>]
ZeroGroup == [Id |-> 0, GroupName |-> <<>>, Description |-> <<>>, Users |-> <<>>]

VarintField(key, n) == IF n = 0 THEN <<>> ELSE <<key, n>>
BytesField(key, str) == IF Len(str) = 0 THEN <<>> ELSE <<key, Len(str)>> \o str

RECURSIVE RepeatedField(_, _)
RepeatedField(key, ns) ==
    IF Len(ns) = 0 THEN <<>> ELSE <<key, ns[1]>> \o RepeatedField(key, Tail(ns))

\* MustMarshalProto(&u)
MarshalUser(u) ==
    VarintField(8, u.Id) \o BytesField(18, u.UserName) \o BytesField(26, u.DisplayName)
        \o BytesField(34, u.EMail) \o BytesField(42, u.URL)

\* MustMarshalProto(&g)
MarshalGroup(g) ==
    VarintField(8, g.Id) \o BytesField(18, g.GroupName) \o BytesField(26, g.Description)
        \o RepeatedField(32, g.Users)

RECURSIVE DecodeUser(_, _)
DecodeUser(raw, u) ==
    IF Len(raw) < 2 THEN u
    ELSE LET key == raw[1]
             str == SubSeq(raw, 3, 2 + raw[2])
             rest == SubSeq(raw, 3 + raw[2], Len(raw))
         IN  IF key = 8 THEN DecodeUser(SubSeq(raw, 3, Len(raw)), [u EXCEPT !.Id = raw[2]])
             ELSE IF key = 18 THEN DecodeUser(rest, [u EXCEPT !.UserName = str])
             ELSE IF key = 26 THEN DecodeUser(rest, [u EXCEPT !.DisplayName = str])
             ELSE IF key = 34 THEN DecodeUser(rest, [u EXCEPT !.EMail = str])
             ELSE IF key = 42 THEN DecodeUser(rest, [u EXCEPT !.URL = str])
             ELSE u

\* MustUnmarshalProto(raw, &u)
UnmarshalUser(raw) == DecodeUser(raw, ZeroUser)

RECURSIVE DecodeGroup(_, _)
DecodeGroup(raw, g) ==
    IF Len(raw) < 2 THEN g
    ELSE LET key == raw[1]
             str == SubSeq(raw, 3, 2 + raw[2])
             rest == SubSeq(raw, 3 + raw[2], Len(raw))
             next == SubSeq(raw, 3, Len(raw))
         IN  IF key = 8 THEN DecodeGroup(next, [g EXCEPT !.Id = raw[2]])
             ELSE IF key = 18 THEN DecodeGroup(rest, [g EXCEPT !.GroupName = str])
             ELSE IF key = 26 THEN DecodeGroup(rest, [g EXCEPT !.Description = str])
             ELSE IF key = 32 THEN DecodeGroup(next, [g EXCEPT !.Users = Append(@, raw[2])])
             ELSE g

\* MustUnmarshalProto(raw, &g)
UnmarshalGroup(raw) == DecodeGroup(raw, ZeroGroup)

(* encoding/json with the omitempty tags; the strings of the model need no  *)
(* escaping.                                                                *)

RECURSIVE Itoa(_)
Itoa(n) == IF n < 10 THEN <<48 + n>> ELSE Itoa(n \div 10) \o <<48 + (n % 10)>>

JSONString(str) == <<34>> \o str \o <<34>>

RECURSIVE JSONNumbers(_)
JSONNumbers(ns) ==
    IF Len(ns) = 0 THEN <<>>
    ELSE IF Len(ns) = 1 THEN Itoa(ns[1])
    ELSE Itoa(ns[1]) \o <<44>> \o JSONNumbers(Tail(ns))

\* one member `"name":value`, or nothing when omitempty drops it
JSONMember(name, empty, value) ==
    IF empty THEN <<>> ELSE << JSONString(name) \o <<58>> \o value >>

RECURSIVE JSONJoin(_)
JSONJoin(members) ==
    IF Len(members) = 0 THEN <<>>
    ELSE IF Len(members) = 1 THEN members[1]
    ELSE members[1] \o <<44>> \o JSONJoin(Tail(members))

JSONObject(members) == <<123>> \o JSONJoin(members) \o <<125>>

\* the member names of the json tags
jsId == <<105, 100>>
jsUserName == <<117, 115, 101, 114, 95, 110, 97, 109, 101>>
jsDisplayName == <<100, 105, 115, 112, 108, 97, 121, 95, 110, 97, 109, 101>>
jsEMail == <<101, 109, 97, 105, 108>>
jsURL == <<117, 114, 108>>
jsGroupName == <<103, 114, 111, 117, 112, 95, 110, 97, 109, 101>>
jsDescription == <<100, 101, 115, 99, 114, 105, 112, 116, 105, 111, 110>>
jsUsers == <<117, 115, 101, 114, 115>>

\* MustMarshalJSON(&u): json.Marshal, then "\r\n"
MarshalJSONUser(u) ==
    JSONObject(JSONMember(jsId, u.Id = 0, Itoa(u.Id))
               \o JSONMember(jsUserName, Len(u.UserName) = 0, JSONString(u.UserName))
               \o JSONMember(jsDisplayName, Len(u.DisplayName) = 0, JSONString(u.DisplayName))
               \o JSONMember(jsEMail, Len(u.EMail) = 0, JSONString(u.EMail))
               \o JSONMember(jsURL, Len(u.URL) = 0, JSONString(u.URL)))
        \o <<13, 10>>

\* MustMarshalJSON(&g)
MarshalJSONGroup(g) ==
    JSONObject(JSONMember(jsId, g.Id = 0, Itoa(g.Id))
               \o JSONMember(jsGroupName, Len(g.GroupName) = 0, JSONString(g.GroupName))
               \o JSONMember(jsDescription, Len(g.Description) = 0, JSONString(g.Description))
               \o JSONMember(jsUsers, Len(g.Users) = 0, <<91>> \o JSONNumbers(g.Users) \o <<93>>))
        \o <<13, 10>>

\* ETagFor: the fingerprint of a serialized form, a quoted digest.  The digest
\* is taken to be collision-free on the records of the model.
ETagFor(raw) == <<34>> \o raw \o <<34>>

----------------------------------------------------------------------------
(* server: the deltas of the JSON bodies, their validation and application. *)
(* A delta field is Nil (a nil pointer: the member is absent) or a value.   *)

Nil == << -1 >>

NewUser == FALSE
ExistingUser == TRUE
NewGroup == FALSE
ExistingGroup == TRUE

\* ^[A-Za-z][0-9A-Za-z]*$
reUserName(str) ==
    /\ Len(str) >= 1
    /\ IsLetter(str[1])
    /\ \A i \in 2..Len(str) : IsLetter(str[i]) \/ IsDigit(str[i])

reGroupName(str) == reUserName(str)

\* ^[\pL\pM\pN\pP\pS\pZ]+$
reUserDisplayName(str) == Len(str) >= 1 /\ \A i \in 1..Len(str) : IsGraphic(str[i])

\* ^[\pL\pM\pN\pP\pS\pZ]*$
reGroupDescription(str) == \A i \in 1..Len(str) : IsGraphic(str[i])

\* [0-9a-z][0-9a-z_-]*(?:\.[0-9a-z][0-9a-z_-]*)+ , case-insensitive
DomainName(h) ==
    /\ Len(h) >= 1
    /\ \A i \in 1..Len(h) : IsLowerAlnum(h[i]) \/ h[i] \in {95, 45, 46}
    /\ IsLowerAlnum(h[1])
    /\ \A i \in 2..Len(h) : h[i - 1] = 46 => IsLowerAlnum(h[i])
    /\ h[Len(h)] # 46
    /\ \E i \in 1..Len(h) : h[i] = 46

\* (?i)^[0-9a-z_.+-]+@[0-9a-z][0-9a-z_-]*(?:\.[0-9a-z][0-9a-z_-]*)+$
reEMail(str) ==
    \E p \in 2..Len(str) :
        /\ str[p] = 64
        /\ \A i \in 1..(p - 1) : IsLowerAlnum(str[i]) \/ str[i] \in {95, 46, 43, 45}
        /\ DomainName(SubSeq(str, p + 1, Len(str)))

\* \d+\.\d+\.\d+\.\d+
IPv4(h) ==
    /\ Len(h) >= 1
    /\ \A i \in 1..Len(h) : IsDigit(h[i]) \/ h[i] = 46
    /\ IsDigit(h[1]) /\ IsDigit(h[Len(h)])
    /\ \A i \in 2..Len(h) : h[i - 1] = 46 => IsDigit(h[i])
    /\ Cardinality({i \in 1..Len(h) : h[i] = 46}) = 3

\* \[[0-9a-f:.]+\] , case-insensitive
IPv6(h) ==
    /\ Len(h) >= 3
    /\ h[1] = 91 /\ h[Len(h)] = 93
    /\ \A i \in 2..(Len(h) - 1) :
           IsDigit(h[i]) \/ Lower(h[i]) \in 97..102 \/ h[i] \in {58, 46}

\* [1-9]\d*
PortNumber(str) ==
    Len(str) >= 1 /\ str[1] \in 49..57 /\ \A i \in 2..Len(str) : IsDigit(str[i])

\* the host, then (?::[1-9]\d*)?
Authority(a) ==
    \E h \in 1..Len(a) :
        /\ DomainName(SubSeq(a, 1, h)) \/ IPv4(SubSeq(a, 1, h)) \/ IPv6(SubSeq(a, 1, h))
        /\ h = Len(a) \/ (a[h + 1] = 58 /\ PortNumber(SubSeq(a, h + 2, Len(a))))

\* (?i)^https?://(?:host|ipv4|\[ipv6\])(?::[1-9]\d*)?(?:/\PC*)?$
reURL(str) ==
    \E p \in {7, 8} :
        /\ Len(str) >= p
        /\ ToLower(SubSeq(str, 1, p)) =
               (IF p = 7 THEN <<104, 116, 116, 112, 58, 47, 47>>
                         ELSE <<104, 116, 116, 112, 115, 58, 47, 47>>)
        /\ \E e \in p..Len(str) :
               /\ Authority(SubSeq(str, p + 1, e))
               /\ e = Len(str)
                  \/ (str[e + 1] = 47 /\ \A i \in (e + 2)..Len(str) : IsGraphic(str[i]))

\* UserDelta.Validate: "" for nil, else the message of the error
\* Validate that lets a delta for an existing user carry a user_name
UserValidateAnyName(d, lifetime) ==
    IF lifetime = NewUser /\ d.UserName = Nil THEN "Field 'user_name' must be set"
    ELSE IF lifetime = NewUser /\ d.EMail = Nil THEN "Field 'email' must be set"
    ELSE IF d.UserName # Nil /\ d.UserName = <<>> THEN "Field 'user_name' must be set"
    ELSE IF d.UserName # Nil /\ ~reUserName(d.UserName)
        THEN "Field 'user_name' must start with a letter and consist of letters and numbers"
    ELSE IF d.DisplayName # Nil /\ d.DisplayName # <<>> /\ ~reUserDisplayName(d.DisplayName)
        THEN "Field 'display_name' must not contain control characters"
    ELSE IF d.EMail # Nil /\ d.EMail = <<>> THEN "Field 'email' must be set"
    ELSE IF d.EMail # Nil /\ ~reEMail(d.EMail)
        THEN "Field 'email' must be a valid e-mail address"
    ELSE IF d.URL # Nil /\ d.URL # <<>> /\ ~reURL(d.URL)
        THEN "Field 'url' must be a valid HTTP(S) URL"
    ELSE ""

UserValidate(d, lifetime) ==
    IF lifetime = NewUser /\ d.UserName = Nil THEN "Field 'user_name' must be set"
    ELSE IF lifetime = NewUser /\ d.EMail = Nil THEN "Field 'email' must be set"
    ELSE IF d.UserName # Nil /\ lifetime = ExistingUser
        THEN "Field 'user_name' cannot be changed"
    ELSE IF d.UserName # Nil /\ d.UserName = <<>> THEN "Field 'user_name' must be set"
    ELSE IF d.UserName # Nil /\ ~reUserName(d.UserName)
        THEN "Field 'user_name' must start with a letter and consist of letters and numbers"
    ELSE IF d.DisplayName # Nil /\ d.DisplayName # <<>> /\ ~reUserDisplayName(d.DisplayName)
        THEN "Field 'display_name' must not contain control characters"
    ELSE IF d.EMail # Nil /\ d.EMail = <<>> THEN "Field 'email' must be set"
    ELSE IF d.EMail # Nil /\ ~reEMail(d.EMail)
        THEN "Field 'email' must be a valid e-mail address"
    ELSE IF d.URL # Nil /\ d.URL # <<>> /\ ~reURL(d.URL)
        THEN "Field 'url' must be a valid HTTP(S) URL"
    ELSE ""

\* Apply that clears the URL the delta does not give
UserApplyClearsURL(d, u) ==
    LET u1 == IF d.UserName # Nil THEN [u EXCEPT !.UserName = d.UserName] ELSE u
        u2 == IF d.DisplayName # Nil
              THEN IF d.DisplayName = <<>>
                   THEN [u1 EXCEPT !.DisplayName = u1.UserName]
                   ELSE [u1 EXCEPT !.DisplayName = d.DisplayName]
              ELSE u1
        u3 == IF d.EMail # Nil THEN [u2 EXCEPT !.EMail = d.EMail] ELSE u2
    IN  IF d.URL # Nil THEN [u3 EXCEPT !.URL = d.URL] ELSE [u3 EXCEPT !.URL = <<>>]

\* UserDelta.Apply
UserApply(d, u) ==
    LET u1 == IF d.UserName # Nil THEN [u EXCEPT !.UserName = d.UserName] ELSE u
        u2 == IF d.DisplayName # Nil
              THEN IF d.DisplayName = <<>>
                   THEN [u1 EXCEPT !.DisplayName = u1.UserName]
                   ELSE [u1 EXCEPT !.DisplayName = d.DisplayName]
              ELSE u1
        u3 == IF d.EMail # Nil THEN [u2 EXCEPT !.EMail = d.EMail] ELSE u2
    IN  IF d.URL # Nil THEN [u3 EXCEPT !.URL = d.URL] ELSE u3

\* GroupDelta.Validate
GroupValidate(d, lifetime) ==
    IF lifetime = NewGroup /\ d.GroupName = Nil THEN "Field 'group_name' must be set"
    ELSE IF d.GroupName # Nil /\ lifetime = ExistingGroup
        THEN "Field 'group_name' cannot be changed"
    ELSE IF d.GroupName # Nil /\ d.GroupName = <<>> THEN "Field 'group_name' must be set"
    ELSE IF d.GroupName # Nil /\ ~reGroupName(d.GroupName)
        THEN "Field 'group_name' must start with a letter and consist of letters and numbers"
    ELSE IF d.Description # Nil /\ d.Description # <<>>
            /\ ~reGroupDescription(d.Description)
        THEN "Field 'description' must not contain control characters"
    ELSE IF d.Users # Nil /\ \E i \in 1..Len(d.Users) : d.Users[i] = 0
        THEN "Field 'users' must contain valid user IDs"
    ELSE ""

\* GroupDelta.Apply
GroupApply(d, g) ==
    LET g1 == IF d.GroupName # Nil THEN [g EXCEPT !.GroupName = d.GroupName] ELSE g
        g2 == IF d.Description # Nil THEN [g1 EXCEPT !.Description = d.Description] ELSE g1
    IN  IF d.Users # Nil THEN [g2 EXCEPT !.Users = d.Users] ELSE g2

----------------------------------------------------------------------------
(* repo.Repo: the store and its transactions (bolt.DB).                     *)

\* an Open that creates every required bucket anew
OpenRecreates(file) ==
    [n \in {requiredBuckets[i] : i \in 1..Len(requiredBuckets)} |-> EmptyBucket]

\* bolt takes the writer lock for no transaction
CanBeginUnlocked(lock, writable) == TRUE

\* repo.Open on the file content `file`: CreateBucketIfNotExists for each
\* required bucket, in one Update
Open(file) ==
    LET names == {requiredBuckets[i] : i \in 1..Len(requiredBuckets)}
    IN  [n \in DOMAIN file \cup names |-> IF n \in DOMAIN file THEN file[n] ELSE EmptyBucket]

\* bolt begins a transaction on the last committed content; a writable one
\* needs the writer lock
CanBegin(lock, writable) == ~writable \/ lock = NoProc

\* the Tx that Repo.View / Repo.Update hand to fn
BeginTx(store, ot, writable) == [ot |-> ot, writable |-> writable, data |-> store]

\* a commit that writes nothing
CommitNothing(store, t) == store

\* a commit that writes the pages of the primary buckets and not those of
\* the name indexes
CommitRecordsOnly(store, t) ==
    [n \in DOMAIN store |-> IF n \in ObjectTypes THEN t.data[n] ELSE store[n]]

\* db.Update when fn returned nil: the transaction's content becomes the store
Commit(store, t) == t.data

\* a rollback that discards the writes and keeps the sequence counters
RollbackKeepsSequence(store, t) ==
    [n \in DOMAIN store |-> [store[n] EXCEPT !.seq = t.data[n].seq]]

\* db.Update when fn returned an error, and db.View always: nothing is kept
Rollback(store, t) == store

\* the store after db.View / db.Update of transaction t whose fn returned err
AfterTx(store, t, err) ==
    IF t.writable /\ err = NoError THEN Commit(store, t) ELSE Rollback(store, t)

NoTx == [ot |-> "", writable |-> FALSE, data |-> <<>>]

----------------------------------------------------------------------------
(* server: requests and responses.                                          *)

\* a request as its handler sees it: the handler, the id and name of the
\* path, the body, the delta parsed from it, the If-Match header; no is the
\* number of the request in the order of arrival (history)
Request(kind, id, name, body, delta, ifMatch) ==
    [kind |-> kind, id |-> id, name |-> name, body |-> body, delta |-> delta,
     ifMatch |-> ifMatch, no |-> 0]

NoDelta == [none |-> TRUE]
NoReq == Request("", 0, <<>>, "", NoDelta, <<>>)

\* a response: status, ETag header and body; overlap is the set of requests
\* that had arrived and not been answered when this one was (history)
Response(status, etag, body) ==
    [status |-> status, etag |-> etag, body |-> body, overlap |-> {}]
NoResp == Response(0, <<>>, <<>>)

UserDelta(userName, displayName, email, url) ==
    [UserName |-> userName, DisplayName |-> displayName, EMail |-> email, URL |-> url]

GroupDelta(groupName, description, users) ==
    [GroupName |-> groupName, Description |-> description, Users |-> users]

\* GetJSONBody: 0 when the body was parsed, else the status it answered
GetJSONBody(r) ==
    IF r.body = "badtype" THEN 415 ELSE IF r.body = "badjson" THEN 400 ELSE 0

\* the id the closure works on: the path's id, or the one Lookup finds
Resolve(t, id, name) ==
    IF id = 0 THEN TxLookup(t, name) ELSE [id |-> id, err |-> NoError]

----------------------------------------------------------------------------
(* server: UserHandler.  Each XxxFn is the closure a handler passes to      *)
(* Repo.View / Repo.Update, applied to transaction t; XxxUserResponse is    *)
(* what the handler writes once View / Update has returned.                 *)

\* CreateUser up to Repo.Update: 0 to go on, else the status answered
CreateUserCheck(r) ==
    IF GetJSONBody(r) # 0 THEN GetJSONBody(r)
    ELSE IF UserValidate(r.delta, NewUser) # "" THEN 400 ELSE 0

CreateUserFn(t, r) ==
    LET u == UserApply(r.delta, ZeroUser)
        a == TxAllocateId(t)
        u1 == [u EXCEPT !.Id = a.id]
        b == TxAssociate(a.t, u1.Id, u1.UserName)
        c == TxPut(b.t, u1.Id, MarshalUser(u1))
    IN  IF a.err # NoError
        THEN [t |-> a.t, err |-> a.err, u |-> u1, done |-> NoResp, allocs |-> <<>>]
        ELSE IF b.err # NoError
        THEN [t |-> b.t, err |-> b.err, u |-> u1, done |-> NoResp, allocs |-> <<a.id>>]
        ELSE [t |-> c.t, err |-> c.err, u |-> u1, done |-> NoResp, allocs |-> <<a.id>>]

CreateUserResponse(res) ==
    IF res.err.kind = "Duplicate" THEN Response(409, <<>>, <<>>)
    ELSE IF res.err # NoError THEN Response(500, <<>>, <<>>)
    ELSE Response(201, ETagFor(MarshalJSONUser(res.u)), MarshalJSONUser(res.u))

GetUserFn(t, r) ==
    LET l == Resolve(t, r.id, r.name)
        value == TxGet(t, l.id)
    IN  IF l.err # NoError
        THEN [t |-> t, err |-> l.err, u |-> ZeroUser, done |-> NoResp, allocs |-> <<>>]
        ELSE IF value.err # NoError
        THEN [t |-> t, err |-> value.err, u |-> ZeroUser, done |-> NoResp, allocs |-> <<>>]
        ELSE [t |-> t, err |-> NoError, u |-> UnmarshalUser(value.v), done |-> NoResp,
              allocs |-> <<>>]

GetUserResponse(res) ==
    IF res.err.kind = "NotFound" THEN Response(404, <<>>, <<>>)
    ELSE IF res.err # NoError THEN Response(500, <<>>, <<>>)
    ELSE Response(200, ETagFor(MarshalJSONUser(res.u)), MarshalJSONUser(res.u))

\* PutUser up to Repo.Update
PutUserCheck(r) ==
    IF GetJSONBody(r) # 0 THEN GetJSONBody(r)
    ELSE IF UserValidate(r.delta, ExistingUser) # "" THEN 400 ELSE 0

\* PutUser that asks for the If-Match header before it resolves the user
PutUserFnHeaderFirst(t, r) ==
    LET l == Resolve(t, r.id, r.name)
        value == TxGet(t, l.id)
        u == UnmarshalUser(value.v)
        actualETag == ETagFor(MarshalJSONUser(u))
        expectETag == r.ifMatch
        u1 == UserApply(r.delta, u)
        w == TxPut(t, l.id, MarshalUser(u1))
    IN  IF expectETag = <<>>
        THEN [t |-> t, err |-> NoError, u |-> ZeroUser, done |-> Response(428, <<>>, <<>>),
              allocs |-> <<>>]
        ELSE IF l.err # NoError
        THEN [t |-> t, err |-> l.err, u |-> ZeroUser, done |-> NoResp, allocs |-> <<>>]
        ELSE IF value.err # NoError
        THEN [t |-> t, err |-> value.err, u |-> ZeroUser, done |-> NoResp, allocs |-> <<>>]
        ELSE IF expectETag # actualETag
        THEN [t |-> t, err |-> NoError, u |-> u, done |-> Response(412, actualETag, <<>>),
              allocs |-> <<>>]
        ELSE [t |-> w.t, err |-> w.err, u |-> u1, done |-> NoResp, allocs |-> <<>>]

\* PutUser that takes a missing If-Match header for a match
PutUserFnNoHeader(t, r) ==
    LET l == Resolve(t, r.id, r.name)
        value == TxGet(t, l.id)
        u == UnmarshalUser(value.v)
        actualETag == ETagFor(MarshalJSONUser(u))
        expectETag == r.ifMatch
        u1 == UserApply(r.delta, u)
        w == TxPut(t, l.id, MarshalUser(u1))
    IN  IF l.err # NoError
        THEN [t |-> t, err |-> l.err, u |-> ZeroUser, done |-> NoResp, allocs |-> <<>>]
        ELSE IF value.err # NoError
        THEN [t |-> t, err |-> value.err, u |-> ZeroUser, done |-> NoResp, allocs |-> <<>>]
        ELSE IF expectETag # <<>> /\ expectETag # actualETag
        THEN [t |-> t, err |-> NoError, u |-> u, done |-> Response(412, actualETag, <<>>),
              allocs |-> <<>>]
        ELSE [t |-> w.t, err |-> w.err, u |-> u1, done |-> NoResp, allocs |-> <<>>]

\* PutUser that writes the record before it compares the ETags
PutUserFnWriteFirst(t, r) ==
    LET l == Resolve(t, r.id, r.name)
        value == TxGet(t, l.id)
        u == UnmarshalUser(value.v)
        actualETag == ETagFor(MarshalJSONUser(u))
        expectETag == r.ifMatch
        u1 == UserApply(r.delta, u)
        w == TxPut(t, l.id, MarshalUser(u1))
    IN  IF l.err # NoError
        THEN [t |-> t, err |-> l.err, u |-> ZeroUser, done |-> NoResp, allocs |-> <<>>]
        ELSE IF value.err # NoError
        THEN [t |-> t, err |-> value.err, u |-> ZeroUser, done |-> NoResp, allocs |-> <<>>]
        ELSE IF expectETag = <<>>
        THEN [t |-> w.t, err |-> w.err, u |-> u, done |-> Response(428, actualETag, <<>>),
              allocs |-> <<>>]
        ELSE IF expectETag # actualETag
        THEN [t |-> w.t, err |-> w.err, u |-> u, done |-> Response(412, actualETag, <<>>),
              allocs |-> <<>>]
        ELSE [t |-> w.t, err |-> w.err, u |-> u1, done |-> NoResp, allocs |-> <<>>]

PutUserFn(t, r) ==
    LET l == Resolve(t, r.id, r.name)
        value == TxGet(t, l.id)
        u == UnmarshalUser(value.v)
        actualETag == ETagFor(MarshalJSONUser(u))
        expectETag == r.ifMatch
        u1 == UserApply(r.delta, u)
        w == TxPut(t, l.id, MarshalUser(u1))
    IN  IF l.err # NoError
        THEN [t |-> t, err |-> l.err, u |-> ZeroUser, done |-> NoResp, allocs |-> <<>>]
        ELSE IF value.err # NoError
        THEN [t |-> t, err |-> value.err, u |-> ZeroUser, done |-> NoResp, allocs |-> <<>>]
        ELSE IF expectETag = <<>>
        THEN [t |-> t, err |-> NoError, u |-> u, done |-> Response(428, actualETag, <<>>),
              allocs |-> <<>>]
        ELSE IF expectETag # actualETag
        THEN [t |-> t, err |-> NoError, u |-> u, done |-> Response(412, actualETag, <<>>),
              allocs |-> <<>>]
        ELSE [t |-> w.t, err |-> w.err, u |-> u1, done |-> NoResp, allocs |-> <<>>]

PutUserResponse(res) ==
    IF res.err.kind = "NotFound" THEN Response(404, <<>>, <<>>)
    ELSE IF res.err # NoError THEN Response(500, <<>>, <<>>)
    ELSE IF res.done # NoResp THEN res.done
    ELSE Response(200, ETagFor(MarshalJSONUser(res.u)), MarshalJSONUser(res.u))

\* DeleteUser without the Unassociate
DeleteUserFnKeepsName(t, r) ==
    LET l == Resolve(t, r.id, r.name)
        value == TxGet(t, l.id)
        u == UnmarshalUser(value.v)
        d == TxDelete(t, l.id)
    IN  IF l.err # NoError
        THEN [t |-> t, err |-> l.err, u |-> ZeroUser, done |-> NoResp, allocs |-> <<>>]
        ELSE IF value.err # NoError
        THEN [t |-> t, err |-> value.err, u |-> ZeroUser, done |-> NoResp, allocs |-> <<>>]
        ELSE [t |-> d.t, err |-> d.err, u |-> u, done |-> NoResp, allocs |-> <<>>]

DeleteUserFn(t, r) ==
    LET l == Resolve(t, r.id, r.name)
        value == TxGet(t, l.id)
        u == UnmarshalUser(value.v)
        d == TxDelete(t, l.id)
        n == TxUnassociate(d.t, u.UserName)
    IN  IF l.err # NoError
        THEN [t |-> t, err |-> l.err, u |-> ZeroUser, done |-> NoResp, allocs |-> <<>>]
        ELSE IF value.err # NoError
        THEN [t |-> t, err |-> value.err, u |-> ZeroUser, done |-> NoResp, allocs |-> <<>>]
        ELSE IF d.err # NoError
        THEN [t |-> d.t, err |-> d.err, u |-> u, done |-> NoResp, allocs |-> <<>>]
        ELSE [t |-> n.t, err |-> n.err, u |-> u, done |-> NoResp, allocs |-> <<>>]

DeleteUserResponse(res) ==
    IF res.err.kind = "NotFound" THEN Response(404, <<>>, <<>>)
    ELSE IF res.err # NoError THEN Response(500, <<>>, <<>>)
    ELSE Response(204, <<>>, <<>>)

RECURSIVE JSONUsers(_)
JSONUsers(visited) ==
    IF Len(visited) = 0 THEN <<>>
    ELSE LET one == MarshalJSONUser(UnmarshalUser(visited[1].v))
             obj == SubSeq(one, 1, Len(one) - 2)
         IN  IF Len(visited) = 1 THEN obj ELSE obj \o <<44>> \o JSONUsers(Tail(visited))

\* ListUsers: MustMarshalJSON(userList)
ListUsersResponse(t) ==
    LET raw == <<91>> \o JSONUsers(TxForEach(t)) \o <<93, 13, 10>>
    IN  Response(200, ETagFor(raw), raw)

----------------------------------------------------------------------------
(* server: GroupHandler, as UserHandler.                                    *)

\* CreateGroup up to Repo.Update: 0 to go on, else the status answered
CreateGroupCheck(r) ==
    IF GetJSONBody(r) # 0 THEN GetJSONBody(r)
    ELSE IF GroupValidate(r.delta, NewGroup) # "" THEN 400 ELSE 0

CreateGroupFn(t, r) ==
    LET g == GroupApply(r.delta, ZeroGroup)
        a == TxAllocateId(t)
        g1 == [g EXCEPT !.Id = a.id]
        b == TxAssociate(a.t, g1.Id, g1.GroupName)
        c == TxPut(b.t, g1.Id, MarshalGroup(g1))
    IN  IF a.err # NoError
        THEN [t |-> a.t, err |-> a.err, g |-> g1, done |-> NoResp, allocs |-> <<>>]
        ELSE IF b.err # NoError
        THEN [t |-> b.t, err |-> b.err, g |-> g1, done |-> NoResp, allocs |-> <<a.id>>]
        ELSE [t |-> c.t, err |-> c.err, g |-> g1, done |-> NoResp, allocs |-> <<a.id>>]

CreateGroupResponse(res) ==
    IF res.err.kind = "Duplicate" THEN Response(409, <<>>, <<>>)
    ELSE IF res.err # NoError THEN Response(500, <<>>, <<>>)
    ELSE Response(201, ETagFor(MarshalJSONGroup(res.g)), MarshalJSONGroup(res.g))

GetGroupFn(t, r) ==
    LET l == Resolve(t, r.id, r.name)
        value == TxGet(t, l.id)
    IN  IF l.err # NoError
        THEN [t |-> t, err |-> l.err, g |-> ZeroGroup, done |-> NoResp, allocs |-> <<>>]
        ELSE IF value.err # NoError
        THEN [t |-> t, err |-> value.err, g |-> ZeroGroup, done |-> NoResp, allocs |-> <<>>]
        ELSE [t |-> t, err |-> NoError, g |-> UnmarshalGroup(value.v), done |-> NoResp,
              allocs |-> <<>>]

GetGroupResponse(res) ==
    IF res.err.kind = "NotFound" THEN Response(404, <<>>, <<>>)
    ELSE IF res.err # NoError THEN Response(500, <<>>, <<>>)
    ELSE Response(200, ETagFor(MarshalJSONGroup(res.g)), MarshalJSONGroup(res.g))

\* PutGroup up to Repo.Update
PutGroupCheck(r) ==
    IF GetJSONBody(r) # 0 THEN GetJSONBody(r)
    ELSE IF GroupValidate(r.delta, ExistingGroup) # "" THEN 400 ELSE 0

PutGroupFn(t, r) ==
    LET l == Resolve(t, r.id, r.name)
        value == TxGet(t, l.id)
        g == UnmarshalGroup(value.v)
        actualETag == ETagFor(MarshalJSONGroup(g))
        expectETag == r.ifMatch
        g1 == GroupApply(r.delta, g)
        w == TxPut(t, l.id, MarshalGroup(g1))
    IN  IF l.err # NoError
        THEN [t |-> t, err |-> l.err, g |-> ZeroGroup, done |-> NoResp, allocs |-> <<>>]
        ELSE IF value.err # NoError
        THEN [t |-> t, err |-> value.err, g |-> ZeroGroup, done |-> NoResp, allocs |-> <<>>]
        ELSE IF expectETag = <<>>
        THEN [t |-> t, err |-> NoError, g |-> g, done |-> Response(428, actualETag, <<>>),
              allocs |-> <<>>]
        ELSE IF expectETag # actualETag
        THEN [t |-> t, err |-> NoError, g |-> g, done |-> Response(412, actualETag, <<>>),
              allocs |-> <<>>]
        ELSE [t |-> w.t, err |-> w.err, g |-> g1, done |-> NoResp, allocs |-> <<>>]

PutGroupResponse(res) ==
    IF res.err.kind = "NotFound" THEN Response(404, <<>>, <<>>)
    ELSE IF res.err # NoError THEN Response(500, <<>>, <<>>)
    ELSE IF res.done # NoResp THEN res.done
    ELSE Response(200, ETagFor(MarshalJSONGroup(res.g)), MarshalJSONGroup(res.g))

DeleteGroupFn(t, r) ==
    LET l == Resolve(t, r.id, r.name)
        value == TxGet(t, l.id)
        g == UnmarshalGroup(value.v)
        d == TxDelete(t, l.id)
        n == TxUnassociate(d.t, g.GroupName)
    IN  IF l.err # NoError
        THEN [t |-> t, err |-> l.err, g |-> ZeroGroup, done |-> NoResp, allocs |-> <<>>]
        ELSE IF value.err # NoError
        THEN [t |-> t, err |-> value.err, g |-> ZeroGroup, done |-> NoResp, allocs |-> <<>>]
        ELSE IF d.err # NoError
        THEN [t |-> d.t, err |-> d.err, g |-> g, done |-> NoResp, allocs |-> <<>>]
        ELSE [t |-> n.t, err |-> n.err, g |-> g, done |-> NoResp, allocs |-> <<>>]

DeleteGroupResponse(res) ==
    IF res.err.kind = "NotFound" THEN Response(404, <<>>, <<>>)
    ELSE IF res.err # NoError THEN Response(500, <<>>, <<>>)
    ELSE Response(204, <<>>, <<>>)

RECURSIVE JSONGroups(_)
JSONGroups(visited) ==
    IF Len(visited) = 0 THEN <<>>
    ELSE LET one == MarshalJSONGroup(UnmarshalGroup(visited[1].v))
             obj == SubSeq(one, 1, Len(one) - 2)
         IN  IF Len(visited) = 1 THEN obj ELSE obj \o <<44>> \o JSONGroups(Tail(visited))

\* ListGroups: MustMarshalJSON(groupList)
ListGroupsResponse(t) ==
    LET raw == <<91>> \o JSONGroups(TxForEach(t)) \o <<93, 13, 10>>
    IN  Response(200, ETagFor(raw), raw)

----------------------------------------------------------------------------
(* server: BlobHandler.  The delta of a blob request is its body.           *)

\* CreateBlob up to Repo.Update: one Content-Type header, not multipart
CreateBlobCheck(r) == IF r.body = "badtype" THEN 415 ELSE 0

\* ServeHTTP on /blob/<id>: AllowMethods(w, r, GET) refuses every other method
BlobIdCheck(r) == IF r.kind = "GetBlob" THEN 0 ELSE 405

\* a CreateBlob that stores every blob under id 1
CreateBlobFnFirstId(t, r) ==
    LET w == TxPut(t, 1, r.delta.Blob)
    IN  [t |-> w.t, err |-> w.err, id |-> 1, allocs |-> <<>>]

CreateBlobFn(t, r) ==
    LET a == TxAllocateId(t)
        w == TxPut(a.t, a.id, r.delta.Blob)
    IN  IF a.err # NoError
        THEN [t |-> a.t, err |-> a.err, id |-> a.id, allocs |-> <<>>]
        ELSE [t |-> w.t, err |-> w.err, id |-> a.id, allocs |-> <<a.id>>]

\* MustMarshalJSON(BlobReference{Id: id}) without the "\r\n"
JSONBlobReference(id) == JSONObject(JSONMember(jsId, FALSE, Itoa(id)))

CreateBlobResponse(r, res) ==
    IF res.err # NoError THEN Response(500, <<>>, <<>>)
    ELSE Response(201, ETagFor(r.delta.Blob), JSONBlobReference(res.id) \o <<13, 10>>)

GetBlobFn(t, r) ==
    LET value == TxGet(t, r.id)
    IN  [t |-> t, err |-> value.err, blob |-> value.v, allocs |-> <<>>]

GetBlobResponse(res) ==
    IF res.err.kind = "NotFound" THEN Response(404, <<>>, <<>>)
    ELSE IF res.err # NoError THEN Response(500, <<>>, <<>>)
    ELSE Response(200, ETagFor(res.blob), res.blob)

RECURSIVE JSONBlobs(_)
JSONBlobs(visited) ==
    IF Len(visited) = 0 THEN <<>>
    ELSE IF Len(visited) = 1 THEN JSONBlobReference(visited[1].id)
    ELSE JSONBlobReference(visited[1].id) \o <<44>> \o JSONBlobs(Tail(visited))

\* ListBlobs: MustMarshalJSON(blobList)
ListBlobsResponse(t) ==
    LET raw == <<91>> \o JSONBlobs(TxForEach(t)) \o <<93, 13, 10>>
    IN  Response(200, ETagFor(raw), raw)

----------------------------------------------------------------------------
(* The requests the clients send.                                           *)

\* the id or the name in the path of a request for one user or group
Targets ==
    {[id |-> i, name |-> <<>>] : i \in 1..MaxSeq}
        \cup {[id |-> 0, name |-> n] : n \in {sal, sb1}}

CreateUserDeltas ==
    { UserDelta(sAl, Nil, sMail, Nil),
      UserDelta(sal, <<>>, sMail, Nil),
      UserDelta(sb1, sD, sMail, sURL),
      UserDelta(s1a, Nil, sMail, Nil),
      UserDelta(sAl, sBell, sNoMail, sNoURL) }

PutUserDeltas ==
    { UserDelta(Nil, Nil, Nil, Nil),
      UserDelta(Nil, sD, Nil, Nil),
      UserDelta(Nil, <<>>, Nil, Nil),
      UserDelta(Nil, Nil, Nil, sURL),
      UserDelta(sAl, Nil, Nil, Nil) }

\* the requests for the user resource; etags are the ETags a client may send
UserRequests(etags) ==
    {Request("ListUsers", 0, <<>>, "", NoDelta, <<>>)}
        \cup {Request("CreateUser", 0, <<>>, "json", d, <<>>) : d \in CreateUserDeltas}
        \cup {Request("CreateUser", 0, <<>>, b, NoDelta, <<>>) : b \in {"badtype", "badjson"}}
        \cup {Request("GetUser", g.id, g.name, "", NoDelta, <<>>) : g \in Targets}
        \cup {Request("PutUser", g.id, g.name, "json", d, e) :
                  g \in Targets, d \in PutUserDeltas, e \in etags \cup {<<>>}}
        \cup {Request("DeleteUser", g.id, g.name, "", NoDelta, <<>>) : g \in Targets}

CreateGroupDeltas ==
    { GroupDelta(sAl, Nil, Nil),
      GroupDelta(sal, sDesc, <<1>>),
      GroupDelta(Nil, sDesc, Nil),
      GroupDelta(sb1, sBell, <<0>>) }

PutGroupDeltas ==
    { GroupDelta(Nil, sDesc, Nil),
      GroupDelta(Nil, Nil, <<2, 1>>),
      GroupDelta(sAl, Nil, Nil) }

GroupRequests(etags) ==
    {Request("ListGroups", 0, <<>>, "", NoDelta, <<>>)}
        \cup {Request("CreateGroup", 0, <<>>, "json", d, <<>>) : d \in CreateGroupDeltas}
        \cup {Request("GetGroup", g.id, g.name, "", NoDelta, <<>>) : g \in Targets}
        \cup {Request("PutGroup", g.id, g.name, "json", d, e) :
                  g \in Targets, d \in PutGroupDeltas, e \in etags \cup {<<>>}}
        \cup {Request("PutGroup", 1, <<>>, "badjson", NoDelta, <<>>)}
        \cup {Request("DeleteGroup", g.id, g.name, "", NoDelta, <<>>) : g \in Targets}

BlobRequests ==
    {Request("ListBlobs", 0, <<>>, "", NoDelta, <<>>)}
        \cup {Request("CreateBlob", 0, <<>>, "raw", [Blob |-> b], <<>>) : b \in {<<1>>, <<2, 3>>}}
        \cup {Request("CreateBlob", 0, <<>>, "badtype", [Blob |-> <<1>>], <<>>)}
        \cup {Request("GetBlob", i, <<>>, "", NoDelta, <<>>) : i \in 0..MaxSeq}
        \cup {Request(m, 1, <<>>, "raw", [Blob |-> <<9>>], <<>>) : m \in {"PutBlob", "DeleteBlob"}}

Requests(etags) == UserRequests(etags[USER]) \cup GroupRequests(etags[GROUP]) \cup BlobRequests

\* the object type a handler opens its transaction on
TypeOf(kind) ==
    IF kind \in {"ListUsers", "CreateUser", "GetUser", "PutUser", "DeleteUser"} THEN USER
    ELSE IF kind \in {"ListGroups", "CreateGroup", "GetGroup", "PutGroup", "DeleteGroup"}
    THEN GROUP
    ELSE BLOB

\* the handlers that call Repo.Update; the others call Repo.View
Updates ==
    {"CreateUser", "PutUser", "DeleteUser", "CreateGroup", "PutGroup", "DeleteGroup",
     "CreateBlob"}

Creates == {"CreateUser", "CreateGroup", "CreateBlob"}

\* what a handler answers before it opens a transaction, or 0
Check(r) ==
    IF r.kind = "CreateUser" THEN CreateUserCheck(r)
    ELSE IF r.kind = "PutUser" THEN PutUserCheck(r)
    ELSE IF r.kind = "CreateGroup" THEN CreateGroupCheck(r)
    ELSE IF r.kind = "PutGroup" THEN PutGroupCheck(r)
    ELSE IF r.kind = "CreateBlob" THEN CreateBlobCheck(r)
    ELSE IF r.kind \in {"PutBlob", "DeleteBlob"} THEN BlobIdCheck(r)
    ELSE 0

----------------------------------------------------------------------------
(* The state machine.                                                       *)

RECURSIVE Ascending(_)
\* the numbers of a set in ascending order
Ascending(ns) ==
    IF ns = {} THEN <<>>
    ELSE LET m == CHOOSE n \in ns : \A o \in ns : n <= o
         IN  <<m>> \o Ascending(ns \ {m})

\* the ids of the records of type ot in a store
Ids(store, ot) == {btou64(k) : k \in DOMAIN store[ot].kv}

\* a call on a Tx with its arguments and results (history)
Call(op, id, name, v, err, rid, rv) ==
    [op |-> op, id |-> id, name |-> name, v |-> v, err |-> err, rid |-> rid, rv |-> rv]

NoCall == Call("", 0, <<>>, <<>>, NoError, 0, <<>>)

NoFn == [ops |-> 0, calls |-> 0, allocs |-> <<>>, last |-> NoCall]

NoUpd == [pre |-> <<>>, work |-> <<>>, failed |-> FALSE, valid |-> FALSE]

\* the goroutines that call CloudServer.Stop
Stoppers == {"s1", "s2", "s3"}

\* the CloudServer after New, with Serve in its accept loop: the listener is
\* open, the goroutine Serve started waits in its select, nobody has called
\* Stop, the repository is open
Serving ==
    [main |-> "serving", listener |-> "open", watcher |-> "select",
     stop |-> [c \in Stoppers |-> "idle"], repo |-> "open"]

Init ==
    /\ db = Open(<<>>)
    /\ wlock = NoProc
    /\ pc = [p \in Procs |-> "idle"]
    /\ req = [p \in Procs |-> NoReq]
    /\ tx = [p \in Procs |-> NoTx]
    /\ resp = [p \in Procs |-> NoResp]
    /\ seen = [ot \in ObjectTypes |-> {}]
    /\ nreq = 0
    /\ epoch = 0
    /\ allocLog = [ot \in ObjectTypes |-> <<>>]
    /\ commitLog = [ot \in ObjectTypes |-> <<>>]
    /\ bornLog = [ot \in ObjectTypes |-> <<>>]
    /\ lastUpd = NoUpd
    /\ fn = [p \in Procs |-> NoFn]
    /\ srv = Serving

\* ServeHTTP hands request r to its handler, which runs up to its call of
\* Repo.View / Repo.Update (or answers at once)
Receive(p, r) ==
    /\ pc[p] \in {"idle", "done"}
    /\ nreq < MaxReqs
    /\ r.kind \in Creates => db[TypeOf(r.kind)].seq < MaxSeq
    /\ nreq' = nreq + 1
    /\ req' = [req EXCEPT ![p] = [r EXCEPT !.no = nreq + 1]]
    /\ IF Check(r) # 0
       THEN /\ pc' = [pc EXCEPT ![p] = "done"]
            /\ resp' = [resp EXCEPT ![p] = Response(Check(r), <<>>, <<>>)]
       ELSE /\ pc' = [pc EXCEPT ![p] = "ready"]
            /\ resp' = [resp EXCEPT ![p] = NoResp]
    /\ UNCHANGED <<srv, db, wlock, tx, seen, epoch, allocLog, commitLog, bornLog, lastUpd, fn>>

\* Repo.View: the read-only transaction begins
RepoView(p) ==
    /\ pc[p] = "ready"
    /\ req[p].kind \notin Updates
    /\ CanBegin(wlock, FALSE)
    /\ tx' = [tx EXCEPT ![p] = BeginTx(db, TypeOf(req[p].kind), FALSE)]
    /\ pc' = [pc EXCEPT ![p] = "intx"]
    /\ UNCHANGED <<srv, db, wlock, req, resp, seen, nreq, epoch, allocLog, commitLog, bornLog,
                   lastUpd, fn>>

\* Repo.Update: the read-write transaction begins, holding the writer lock
RepoUpdate(p) ==
    /\ pc[p] = "ready"
    /\ req[p].kind \in Updates
    /\ CanBegin(wlock, TRUE)
    /\ req[p].kind \in Creates => db[TypeOf(req[p].kind)].seq < MaxSeq
    /\ tx' = [tx EXCEPT ![p] = BeginTx(db, TypeOf(req[p].kind), TRUE)]
    /\ wlock' = p
    /\ pc' = [pc EXCEPT ![p] = "intx"]
    /\ UNCHANGED <<srv, db, req, resp, seen, nreq, epoch, allocLog, commitLog, bornLog, lastUpd,
                   fn>>

\* the requests of other goroutines that have arrived and are not answered
Pending(p) == {req[q].no : q \in {q \in Procs \ {p} : pc[q] \in {"ready", "intx"}}}

\* fn has run with result res (the transaction after it, its error, the ids
\* it allocated); View / Update returns and the handler answers with rsp
Return(p, res, rsp, etags) ==
    LET ot == tx[p].ot
        store == AfterTx(db, res.t, res.err)
        committed == tx[p].writable /\ res.err = NoError
    IN  /\ db' = store
        /\ wlock' = IF tx[p].writable THEN NoProc ELSE wlock
        /\ pc' = [pc EXCEPT ![p] = "done"]
        /\ tx' = [tx EXCEPT ![p] = NoTx]
        /\ resp' = [resp EXCEPT ![p] = [rsp EXCEPT !.overlap = Pending(p)]]
        /\ seen' = [seen EXCEPT ![ot] = @ \cup etags]
        /\ allocLog' = [allocLog EXCEPT ![ot] = @ \o res.allocs]
        /\ commitLog' = [commitLog EXCEPT ![ot] = IF committed THEN @ \o res.allocs ELSE @]
        /\ bornLog' = [bornLog EXCEPT ![ot] = @ \o Ascending(Ids(store, ot) \ Ids(db, ot))]
        /\ UNCHANGED <<srv, req, nreq, epoch, lastUpd, fn>>

\* the ETag header of a response, as the set of ETags the client learns
ETagOf(rsp) == IF rsp.etag = <<>> THEN {} ELSE {rsp.etag}

ListUsers(p) ==
    /\ pc[p] = "intx" /\ req[p].kind = "ListUsers"
    /\ Return(p, [t |-> tx[p], err |-> NoError, allocs |-> <<>>],
              ListUsersResponse(tx[p]), {})

CreateUser(p) ==
    /\ pc[p] = "intx" /\ req[p].kind = "CreateUser"
    /\ LET res == CreateUserFn(tx[p], req[p])
       IN  Return(p, res, CreateUserResponse(res), ETagOf(CreateUserResponse(res)))

GetUser(p) ==
    /\ pc[p] = "intx" /\ req[p].kind = "GetUser"
    /\ LET res == GetUserFn(tx[p], req[p])
       IN  Return(p, res, GetUserResponse(res), ETagOf(GetUserResponse(res)))

PutUser(p) ==
    /\ pc[p] = "intx" /\ req[p].kind = "PutUser"
    /\ LET res == PutUserFn(tx[p], req[p])
       IN  Return(p, res, PutUserResponse(res), ETagOf(PutUserResponse(res)))

DeleteUser(p) ==
    /\ pc[p] = "intx" /\ req[p].kind = "DeleteUser"
    /\ LET res == DeleteUserFn(tx[p], req[p])
       IN  Return(p, res, DeleteUserResponse(res), {})

ListGroups(p) ==
    /\ pc[p] = "intx" /\ req[p].kind = "ListGroups"
    /\ Return(p, [t |-> tx[p], err |-> NoError, allocs |-> <<>>],
              ListGroupsResponse(tx[p]), {})

CreateGroup(p) ==
    /\ pc[p] = "intx" /\ req[p].kind = "CreateGroup"
    /\ LET res == CreateGroupFn(tx[p], req[p])
       IN  Return(p, res, CreateGroupResponse(res), ETagOf(CreateGroupResponse(res)))

GetGroup(p) ==
    /\ pc[p] = "intx" /\ req[p].kind = "GetGroup"
    /\ LET res == GetGroupFn(tx[p], req[p])
       IN  Return(p, res, GetGroupResponse(res), ETagOf(GetGroupResponse(res)))

PutGroup(p) ==
    /\ pc[p] = "intx" /\ req[p].kind = "PutGroup"
    /\ LET res == PutGroupFn(tx[p], req[p])
       IN  Return(p, res, PutGroupResponse(res), ETagOf(PutGroupResponse(res)))

DeleteGroup(p) ==
    /\ pc[p] = "intx" /\ req[p].kind = "DeleteGroup"
    /\ LET res == DeleteGroupFn(tx[p], req[p])
       IN  Return(p, res, DeleteGroupResponse(res), {})

ListBlobs(p) ==
    /\ pc[p] = "intx" /\ req[p].kind = "ListBlobs"
    /\ Return(p, [t |-> tx[p], err |-> NoError, allocs |-> <<>>],
              ListBlobsResponse(tx[p]), {})

CreateBlob(p) ==
    /\ pc[p] = "intx" /\ req[p].kind = "CreateBlob"
    /\ LET res == CreateBlobFn(tx[p], req[p])
       IN  Return(p, res, CreateBlobResponse(req[p], res), {})

GetBlob(p) ==
    /\ pc[p] = "intx" /\ req[p].kind = "GetBlob"
    /\ LET res == GetBlobFn(tx[p], req[p])
       IN  Return(p, res, GetBlobResponse(res), {})

\* the server stops while no request is being handled and starts again on
\* the same directory: Repo.Close, then repo.Open
Restart ==
    /\ \A p \in Procs : pc[p] \in {"idle", "done"}
    /\ nreq < MaxReqs
    /\ nreq' = nreq + 1
    /\ epoch' = epoch + 1
    /\ db' = Open(db)
    /\ UNCHANGED <<srv, wlock, pc, req, tx, resp, seen, allocLog, commitLog, bornLog, lastUpd,
                   fn>>

Handle(p) ==
    \/ ListUsers(p)
    \/ CreateUser(p)
    \/ GetUser(p)
    \/ PutUser(p)
    \/ DeleteUser(p)
    \/ ListGroups(p)
    \/ CreateGroup(p)
    \/ GetGroup(p)
    \/ PutGroup(p)
    \/ DeleteGroup(p)
    \/ ListBlobs(p)
    \/ CreateBlob(p)
    \/ GetBlob(p)

\* one request at a time
Next ==
    \/ \E r \in Requests(seen) : Receive("g1", r)
    \/ RepoView("g1")
    \/ RepoUpdate("g1")
    \/ Handle("g1")
    \/ Restart

Spec == Init /\ [][Next]_vars

----------------------------------------------------------------------------
(* Two goroutines serve user requests at the same time.                     *)

ConcDeltas ==
    { UserDelta(sAl, Nil, sMail, Nil),
      UserDelta(Nil, sD, Nil, Nil),
      UserDelta(Nil, Nil, Nil, sURL) }

\* creations of one user, listings, and reads, updates and deletions of the
\* user with id 1 or name al
ConcRequests(etags) ==
    {r \in UserRequests(etags) :
        \/ r.kind = "ListUsers"
        \/ r.kind = "GetUser" /\ (r.id = 1 \/ r.name = sal)
        \/ r.kind = "CreateUser" /\ r.delta \in ConcDeltas
        \/ r.kind = "PutUser" /\ r.id = 1 /\ r.delta \in ConcDeltas
        \/ r.kind = "DeleteUser" /\ r.id = 1}

NextConc ==
    \E p \in Procs :
        \/ \E r \in ConcRequests(seen[USER]) : Receive(p, r)
        \/ RepoView(p)
        \/ RepoUpdate(p)
        \/ ListUsers(p)
        \/ CreateUser(p)
        \/ GetUser(p)
        \/ PutUser(p)
        \/ DeleteUser(p)

SpecConc == Init /\ [][NextConc]_vars

----------------------------------------------------------------------------
(* A client of package repo: functions passed to Repo.View and Repo.Update  *)
(* that make any calls on their Tx and return nil or an error.              *)

Payloads == {<<1>>, <<2>>}
TxNames == {sAl, sb1}
TxIds == {1, 2}

\* Repo.View / Repo.Update begin the bolt transaction and hand fn its Tx
TxBegin(p, ot, writable) ==
    /\ pc[p] \in {"idle", "done"}
    /\ nreq < MaxReqs
    /\ CanBegin(wlock, writable)
    /\ nreq' = nreq + 1
    /\ tx' = [tx EXCEPT ![p] = BeginTx(db, ot, writable)]
    /\ wlock' = IF writable THEN p ELSE wlock
    /\ pc' = [pc EXCEPT ![p] = "infn"]
    /\ fn' = [fn EXCEPT ![p] = [ops |-> @.ops, calls |-> 0, allocs |-> <<>>, last |-> NoCall]]
    /\ lastUpd' = IF writable THEN NoUpd ELSE lastUpd
    /\ UNCHANGED <<srv, db, req, resp, seen, epoch, allocLog, commitLog, bornLog>>

\* db.View / db.Update return after fn returned nil (ok) or an error, or
\* panicked: commit or rollback
TxReturn(p, ok) ==
    LET t == tx[p]
        store == AfterTx(db, t, IF ok THEN NoError ELSE [kind |-> "error"])
    IN  /\ db' = store
        /\ wlock' = IF t.writable THEN NoProc ELSE wlock
        /\ pc' = [pc EXCEPT ![p] = "done"]
        /\ tx' = [tx EXCEPT ![p] = NoTx]
        /\ commitLog' = [commitLog EXCEPT ![t.ot] =
                             IF t.writable /\ ok THEN @ \o fn[p].allocs ELSE @]
        /\ bornLog' = [bornLog EXCEPT ![t.ot] = @ \o Ascending(Ids(store, t.ot) \ Ids(db, t.ot))]
        /\ lastUpd' = IF t.writable
                      THEN [pre |-> db, work |-> t.data, failed |-> ~ok, valid |-> TRUE]
                      ELSE lastUpd
        /\ fn' = [fn EXCEPT ![p] = [NoFn EXCEPT !.ops = fn[p].ops]]
        /\ UNCHANGED <<srv, req, resp, seen, nreq, epoch, allocLog>>

TxEnd(p, ok) == pc[p] = "infn" /\ TxReturn(p, ok)

\* fn made a call on its Tx that left the Tx as t1 with error err and
\* returned the ids allocd; a nil-bucket panic unwinds through db.Update
CalledWithin(p, t1, call, allocd, budget) ==
    /\ pc[p] = "infn"
    /\ fn[p].ops < budget
    /\ IF call.err = NilBucketPanic
       THEN TxReturn(p, FALSE)
       ELSE /\ tx' = [tx EXCEPT ![p] = t1]
            /\ fn' = [fn EXCEPT ![p] = [ops |-> @.ops + 1, calls |-> @.calls + 1,
                                         allocs |-> @.allocs \o allocd, last |-> call]]
            /\ allocLog' = [allocLog EXCEPT ![tx[p].ot] = @ \o allocd]
            /\ lastUpd' = NoUpd
            /\ UNCHANGED <<srv, db, wlock, pc, req, resp, seen, nreq, epoch, commitLog, bornLog>>

Called(p, t1, call, allocd) == CalledWithin(p, t1, call, allocd, MaxOps)

ForEach(p) ==
    Called(p, tx[p], Call("ForEach", 0, <<>>, <<>>, NoError, 0, TxForEach(tx[p])), <<>>)

AllocateId(p) ==
    /\ tx[p].ot # "" => tx[p].data[tx[p].ot].seq < MaxSeq
    /\ LET res == TxAllocateId(tx[p])
       IN  Called(p, res.t, Call("AllocateId", 0, <<>>, <<>>, res.err, res.id, <<>>),
                  IF res.err = NoError THEN <<res.id>> ELSE <<>>)

Get(p, id) ==
    LET res == TxGet(tx[p], id)
    IN  Called(p, tx[p], Call("Get", id, <<>>, <<>>, res.err, 0, res.v), <<>>)

Put(p, id, v) ==
    LET res == TxPut(tx[p], id, v)
    IN  Called(p, res.t, Call("Put", id, <<>>, v, res.err, 0, <<>>), <<>>)

Delete(p, id) ==
    LET res == TxDelete(tx[p], id)
    IN  Called(p, res.t, Call("Delete", id, <<>>, <<>>, res.err, 0, <<>>), <<>>)

Lookup(p, name) ==
    LET res == TxLookup(tx[p], name)
    IN  Called(p, tx[p], Call("Lookup", 0, name, <<>>, res.err, res.id, <<>>), <<>>)

Associate(p, id, name) ==
    LET res == TxAssociate(tx[p], id, name)
    IN  Called(p, res.t, Call("Associate", id, name, <<>>, res.err, 0, <<>>), <<>>)

Unassociate(p, name) ==
    LET res == TxUnassociate(tx[p], name)
    IN  Called(p, res.t, Call("Unassociate", 0, name, <<>>, res.err, 0, <<>>), <<>>)

NextTx ==
    \/ \E ot \in ObjectTypes, writable \in BOOLEAN : TxBegin("g1", ot, writable)
    \/ \E ok \in BOOLEAN : TxEnd("g1", ok)
    \/ ForEach("g1")
    \/ AllocateId("g1")
    \/ \E id \in TxIds : Get("g1", id)
    \/ \E id \in TxIds, v \in Payloads : Put("g1", id, v)
    \/ \E id \in TxIds : Delete("g1", id)
    \/ \E name \in TxNames : Lookup("g1", name)
    \/ \E id \in TxIds, name \in TxNames : Associate("g1", id, name)
    \/ \E name \in TxNames : Unassociate("g1", name)
    \/ Restart

SpecTx == Init /\ [][NextTx]_vars

----------------------------------------------------------------------------
(* A client of package repo that inserts records under ids of one and of    *)
(* two significant bytes, in any order and over several transactions, and   *)
(* lists them with ForEach.                                                 *)

OrderIds == {1, 2, 256}

InsertRecord(p, id, v) ==
    /\ pc[p] = "infn"
    /\ u64tob(id) \notin DOMAIN tx[p].data[tx[p].ot].kv
    /\ LET res == TxPut(tx[p], id, v)
       IN  CalledWithin(p, res.t, Call("Put", id, <<>>, v, res.err, 0, <<>>), <<>>,
                        MaxOrderOps)

ListRecords(p) ==
    /\ pc[p] = "infn"
    /\ CalledWithin(p, tx[p], Call("ForEach", 0, <<>>, <<>>, NoError, 0, TxForEach(tx[p])),
                    <<>>, MaxOrderOps)

NextOrder ==
    \/ \E ot \in ObjectTypes, writable \in BOOLEAN : TxBegin("g1", ot, writable)
    \/ \E ok \in BOOLEAN : TxEnd("g1", ok)
    \/ \E id \in OrderIds : InsertRecord("g1", id, <<id % 256>>)
    \/ ListRecords("g1")

SpecOrder == Init /\ [][NextOrder]_vars

----------------------------------------------------------------------------
(* Callers of u64tob and btou64: two goroutines that convert ids at the     *)
(* byte boundaries and byte strings of 0 to 9 bytes, each keeping its last  *)
(* call and result.                                                         *)

\* ids around the carries into the second, third and fourth byte, and the
\* largest id the checker's integers hold
KeyIds == {0, 1, 2, 255, 256, 257, 65535, 65536, 16777215, 16777216, 2147483647}

\* byte strings of every length from 0 to 9
KeyBytes ==
    {SubSeq(<<0, 0, 0, 0, 0, 0, 1, 2, 3>>, i, j) : i \in {1, 7}, j \in 0..9}
        \cup {u64tob(v) : v \in {0, 1, 256}}

U64tob(p, v) ==
    /\ pc[p] = "idle"
    /\ fn' = [fn EXCEPT ![p].last = Call("u64tob", v, <<>>, u64tob(v), NoError, 0, <<>>)]
    /\ UNCHANGED <<srv, db, wlock, pc, req, tx, resp, seen, nreq, epoch, allocLog, commitLog,
                   bornLog, lastUpd>>

Btou64(p, b) ==
    /\ pc[p] = "idle"
    /\ fn' = [fn EXCEPT ![p].last = Call("btou64", 0, <<>>, b, NoError, btou64(b), <<>>)]
    /\ UNCHANGED <<srv, db, wlock, pc, req, tx, resp, seen, nreq, epoch, allocLog, commitLog,
                   bornLog, lastUpd>>

NextCodec ==
    \E p \in Procs :
        \/ \E v \in KeyIds : U64tob(p, v)
        \/ \E b \in KeyBytes : Btou64(p, b)

SpecCodec == Init /\ [][NextCodec]_vars

----------------------------------------------------------------------------
(* CloudServer.Serve, Stop and Close, and main: the handlers of accepted    *)
(* requests run in their own goroutines, which http.Server.Serve does not   *)
(* wait for when Accept fails; signal.Notify drops a signal that nobody is  *)
(* receiving; stopch is unbuffered, so Stop returns when its send meets the *)
(* one receive of the goroutine that Serve started.                         *)

ServeRequests(etags) ==
    {r \in UserRequests(etags) :
        \/ r.kind = "GetUser" /\ r.id = 1
        \/ r.kind = "CreateUser" /\ r.delta = UserDelta(sAl, Nil, sMail, Nil)}

\* httpserver.Serve accepts a connection and starts its handler
Accept(p, r) ==
    /\ srv.main = "serving" /\ srv.listener = "open"
    /\ Receive(p, r)

\* a handler that was started goes on: Repo.View / Repo.Update begin unless
\* the store is closed, then answer 500; fn runs and the handler answers
Handler(p) ==
    /\ srv.main # "exited"
    /\ \/ srv.repo # "closed" /\ RepoView(p)
       \/ srv.repo # "closed" /\ RepoUpdate(p)
       \/ /\ srv.repo = "closed" /\ pc[p] = "ready"
          /\ pc' = [pc EXCEPT ![p] = "done"]
          /\ resp' = [resp EXCEPT ![p] = Response(500, <<>>, <<>>)]
          /\ UNCHANGED <<srv, db, wlock, req, tx, seen, nreq, epoch, allocLog, commitLog,
                         bornLog, lastUpd, fn>>
       \/ GetUser(p)
       \/ CreateUser(p)

\* the rest of the server moves and the handlers stay where they are
ServerStep(srv1) ==
    /\ srv' = srv1
    /\ UNCHANGED <<db, wlock, pc, req, tx, resp, seen, nreq, epoch, allocLog, commitLog,
                   bornLog, lastUpd, fn>>

\* case sig := <-sigch: SIGINT or SIGTERM arrives while the goroutine waits
WatcherSignal ==
    /\ srv.watcher = "select" /\ srv.main = "serving"
    /\ ServerStep([srv EXCEPT !.watcher = "woken"])

\* Stop is called: the send on stopch begins
Stop(c) ==
    /\ srv.stop[c] = "idle" /\ srv.main # "exited"
    /\ ServerStep([srv EXCEPT !.stop[c] = "sending"])

\* case <-srv.stopch: the send of one caller of Stop is received, and that
\* call of Stop returns
WatcherStop(c) ==
    /\ srv.watcher = "select" /\ srv.stop[c] = "sending" /\ srv.main # "exited"
    /\ ServerStep([srv EXCEPT !.watcher = "woken", !.stop[c] = "returned"])

\* l.Close() by the goroutine, which ends
ListenerClose ==
    /\ srv.watcher = "woken" /\ srv.main # "exited"
    /\ ServerStep([srv EXCEPT !.watcher = "done", !.listener = "closed"])

\* Accept fails on the closed listener and Serve returns to main
ServeReturn ==
    /\ srv.main = "serving" /\ srv.listener = "closed"
    /\ ServerStep([srv EXCEPT !.main = "returned"])

\* main's deferred srv.Close() calls Repo.Close: db.Close() is invoked
Close ==
    /\ srv.main = "returned"
    /\ ServerStep([srv EXCEPT !.main = "closing", !.repo = "closing"])

\* db.Close() has the writer lock and closes the store; the open read-only
\* transactions may or may not hold it back
CloseReturn ==
    /\ srv.main = "closing" /\ wlock = NoProc
    /\ ServerStep([srv EXCEPT !.main = "closed", !.repo = "closed"])

\* main returns and the process ends with its goroutines
Exit ==
    /\ srv.main = "closed"
    /\ ServerStep([srv EXCEPT !.main = "exited"])

NextServe ==
    \/ \E p \in Procs, r \in ServeRequests(seen[USER]) : Accept(p, r)
    \/ \E p \in Procs : Handler(p)
    \/ WatcherSignal
    \/ \E c \in Stoppers : Stop(c)
    \/ \E c \in Stoppers : WatcherStop(c)
    \/ ListenerClose
    \/ ServeReturn
    \/ Close
    \/ CloseReturn
    \/ Exit

SpecServe == Init /\ [][NextServe]_vars

\* the same server without requests
NextStop ==
    \/ WatcherSignal
    \/ \E c \in Stoppers : Stop(c)
    \/ \E c \in Stoppers : WatcherStop(c)
    \/ ListenerClose
    \/ ServeReturn
    \/ Close
    \/ CloseReturn
    \/ Exit

\* every goroutine that can take a step takes one in the end
FairStop == Init /\ [][NextStop]_vars /\ WF_vars(NextStop)

----------------------------------------------------------------------------
(* Properties.  They read the store through the definitions below, not      *)
(* through the operations of repo.Tx.                                       *)

Named == {USER, GROUP}
Puts == {"PutUser", "PutGroup"}

\* the name and the fingerprint of the record stored as payload raw
NameOf(ot, raw) ==
    IF ot = USER THEN UnmarshalUser(raw).UserName ELSE UnmarshalGroup(raw).GroupName

Fingerprint(ot, raw) ==
    IF ot = USER THEN ETagFor(MarshalJSONUser(UnmarshalUser(raw)))
    ELSE ETagFor(MarshalJSONGroup(UnmarshalGroup(raw)))

\* the primary key of the record that request r addresses in a store, by id
\* or through the name index; <<>> when the index has no entry for the name
TargetKey(store, r) ==
    LET index == store[ByName(TypeOf(r.kind))].kv
    IN  IF r.id # 0 THEN u64tob(r.id)
        ELSE IF ToLower(r.name) \in DOMAIN index THEN index[ToLower(r.name)]
        ELSE <<>>

\* goroutine p gets its answer in this step: its transaction returns, or
\* its handler answers without one
Returns(p) == pc[p] = "intx" /\ pc'[p] = "done"
Answers(p) == pc'[p] = "done" /\ (pc[p] = "intx" \/ req'[p].no # req[p].no)

StrictlyIncreasing(ids) == \A i, j \in 1..Len(ids) : i < j => ids[i] < ids[j]

\* C2: in every committed state, for User and for Group, no two records have
\* names that are equal after lowercasing, and no two keys of the name index
\* are equal after lowercasing.
C2_NamesUnique ==
    \A ot \in Named :
        /\ \A k1, k2 \in DOMAIN db[ot].kv :
               k1 # k2 => ToLower(NameOf(ot, db[ot].kv[k1])) # ToLower(NameOf(ot, db[ot].kv[k2]))
        /\ \A n1, n2 \in DOMAIN db[ByName(ot)].kv : n1 # n2 => ToLower(n1) # ToLower(n2)

\* a create was refused as a duplicate of a stored user whose name differs
\* from the wanted one by case only
C2_Witness ==
    \E p \in Procs :
        /\ pc[p] = "done" /\ req[p].kind = "CreateUser" /\ resp[p].status = 409
        /\ \E k \in DOMAIN db[USER].kv :
               /\ NameOf(USER, db[USER].kv[k]) # req[p].delta.UserName
               /\ ToLower(NameOf(USER, db[USER].kv[k])) = ToLower(req[p].delta.UserName)

\* C3: in every committed state, for User and for Group, the name index is
\* exactly the map from the lowercased name of each stored record to that
\* record's key: one entry per record, no entry without its record.
C3_IndexMatchesRecords ==
    \A ot \in Named :
        /\ DOMAIN db[ByName(ot)].kv =
               {ToLower(NameOf(ot, db[ot].kv[k])) : k \in DOMAIN db[ot].kv}
        /\ \A k \in DOMAIN db[ot].kv :
               db[ByName(ot)].kv[ToLower(NameOf(ot, db[ot].kv[k]))] = k

\* a user was deleted while another one stays
C3_Witness ==
    /\ Cardinality(DOMAIN db[USER].kv) = 1
    /\ \E p \in Procs : pc[p] = "done" /\ req[p].kind = "DeleteUser" /\ resp[p].status = 204

\* C5: a create-user or create-group request answered 409 (Duplicate) leaves
\* the whole store as it was: records, name index and id sequence.
C5_DuplicateLeavesStore ==
    [][\A p \in Procs :
          (Returns(p) /\ req[p].kind \in {"CreateUser", "CreateGroup"}
               /\ resp'[p].status = 409)
          => db' = db]_vars

\* a duplicate was refused: two ids were handed out, the sequence stands at 1
C5_Witness ==
    /\ db[USER].seq = 1
    /\ Len(allocLog[USER]) = 2
    /\ \E p \in Procs : pc[p] = "done" /\ req[p].kind = "CreateUser" /\ resp[p].status = 409

\* C6: per type, the ids of the records that appear in committed states,
\* in the order of their commits, are strictly increasing: no id of a
\* record, deleted or not, is given to a later record.
C6_IdsNeverReused == \A ot \in ObjectTypes : StrictlyIncreasing(bornLog[ot])

\* user 1 was created and deleted, then user 2 was created
C6_Witness == Len(bornLog[USER]) = 2 /\ Ids(db, USER) = {bornLog[USER][2]}

\* C7: a well-formed PUT (one that reaches its transaction) that addresses a
\* stored record is answered 428 with the record's fingerprint if it has no
\* If-Match, 412 with the record's fingerprint if its If-Match differs from
\* it, and otherwise 200, the stored record becoming the delta applied to it.
C7_PutOutcome ==
    [][\A p \in Procs :
          LET r == req[p]
              ot == TypeOf(r.kind)
              k == TargetKey(db, r)
              F == Fingerprint(ot, db[ot].kv[k])
              applied == IF ot = USER
                         THEN MarshalUser(UserApply(r.delta, UnmarshalUser(db[ot].kv[k])))
                         ELSE MarshalGroup(GroupApply(r.delta, UnmarshalGroup(db[ot].kv[k])))
          IN  (Returns(p) /\ r.kind \in Puts /\ k \in DOMAIN db[ot].kv)
              => /\ r.ifMatch = <<>> => resp'[p].status = 428 /\ resp'[p].etag = F
                 /\ (r.ifMatch # <<>> /\ r.ifMatch # F)
                        => resp'[p].status = 412 /\ resp'[p].etag = F
                 /\ r.ifMatch = F => resp'[p].status = 200 /\ db'[ot].kv[k] = applied]_vars

\* a PUT without If-Match was answered 428 with the current fingerprint
C7_Witness ==
    \E p \in Procs :
        /\ pc[p] = "done" /\ req[p].kind = "PutUser" /\ resp[p].status = 428
        /\ TargetKey(db, req[p]) \in DOMAIN db[USER].kv
        /\ resp[p].etag = Fingerprint(USER, db[USER].kv[TargetKey(db, req[p])])

\* C8: a PUT answered 400, 404, 412 or 428 leaves the whole store as it was.
C8_FailedPutLeavesStore ==
    [][\A p \in Procs :
          (Answers(p) /\ req'[p].kind \in Puts /\ resp'[p].status \in {400, 404, 412, 428})
          => db' = db]_vars

\* a PUT with a stale fingerprint was answered 412; its delta would have
\* changed the record
C8_Witness ==
    \E p \in Procs :
        LET k == TargetKey(db, req[p])
        IN  /\ pc[p] = "done" /\ req[p].kind = "PutUser" /\ resp[p].status = 412
            /\ k \in DOMAIN db[USER].kv
            /\ MarshalUser(UserApply(req[p].delta, UnmarshalUser(db[USER].kv[k])))
                   # db[USER].kv[k]

\* the fields of a record that a PUT may give
Fields(ot) ==
    IF ot = USER THEN {"UserName", "DisplayName", "EMail", "URL"}
    ELSE {"GroupName", "Description", "Users"}

\* the record stored under key k
RecordAt(store, ot, k) ==
    IF ot = USER THEN UnmarshalUser(store[ot].kv[k]) ELSE UnmarshalGroup(store[ot].kv[k])

\* C10 as claimed: after a PUT answered 200, every field the request gives
\* has the given value and every other field of the record is as before.
C10_GivenFieldsTakeGivenValue ==
    [][\A p \in Procs :
          LET r == req[p]
              ot == TypeOf(r.kind)
              k == TargetKey(db, r)
              old == RecordAt(db, ot, k)
              new == RecordAt(db', ot, k)
          IN  (Returns(p) /\ r.kind \in Puts /\ resp'[p].status = 200)
              => /\ new.Id = old.Id
                 /\ \A f \in Fields(ot) :
                        new[f] = IF r.delta[f] # Nil THEN r.delta[f] ELSE old[f]]_vars

\* C10: after a PUT answered 200, every field the request gives has the given
\* value, except that an empty display_name sets the display name to the
\* user name; every other field of the record is as before.
C10_PartialUpdate ==
    [][\A p \in Procs :
          LET r == req[p]
              ot == TypeOf(r.kind)
              k == TargetKey(db, r)
              old == RecordAt(db, ot, k)
              new == RecordAt(db', ot, k)
          IN  (Returns(p) /\ r.kind \in Puts /\ resp'[p].status = 200)
              => /\ new.Id = old.Id
                 /\ \A f \in Fields(ot) :
                        new[f] = IF r.delta[f] = Nil THEN old[f]
                                 ELSE IF f = "DisplayName" /\ r.delta[f] = <<>>
                                 THEN old.UserName
                                 ELSE r.delta[f]]_vars

\* a PUT gave an empty display_name to a user that has a URL: the display
\* name is the user name and the URL stands
C10_Witness ==
    \E p \in Procs :
        LET k == TargetKey(db, req[p])
        IN  /\ pc[p] = "done" /\ req[p].kind = "PutUser" /\ resp[p].status = 200
            /\ req[p].delta.DisplayName = <<>>
            /\ RecordAt(db, USER, k).DisplayName = RecordAt(db, USER, k).UserName
            /\ RecordAt(db, USER, k).URL = sURL

\* C1 as claimed: per type, every value AllocateId returns, in committed
\* and in aborted transactions and across restarts, is greater than all the
\* values it returned before.
C1_AllocateIdIncreasing == \A ot \in ObjectTypes : StrictlyIncreasing(allocLog[ot])

\* C1: per type, the values AllocateId returns within one transaction are
\* strictly increasing, and every value it returns in an Update that commits
\* is greater than all the values it returned in Updates that committed
\* before, across restarts.
C1_CommittedIdsIncreasing ==
    /\ \A ot \in ObjectTypes : StrictlyIncreasing(commitLog[ot])
    /\ \A p \in Procs :
           pc[p] = "infn" /\ tx[p].writable
           => StrictlyIncreasing(commitLog[tx[p].ot] \o fn[p].allocs)

\* an Update that allocated committed, the store restarted and a second
\* Update allocated
C1_Witness ==
    /\ epoch > 0
    /\ Len(commitLog[USER]) = 1
    /\ Len(allocLog[USER]) = 2
    /\ pc["g1"] = "infn" /\ tx["g1"].ot = USER /\ Len(fn["g1"].allocs) = 1

\* C4: after an Update whose fn returned an error the store is the one
\* before it; after an Update whose fn returned nil the store is the one fn
\* left in its Tx; this stays so through View transactions and restarts, and
\* every transaction begins on the store.
C4_UpdateAtomic ==
    /\ lastUpd.valid => db = IF lastUpd.failed THEN lastUpd.pre ELSE lastUpd.work
    /\ \A p \in Procs : pc[p] = "infn" /\ fn[p].calls = 0 => tx[p].data = db

\* an Update put a record, advanced the sequence and returned an error; the
\* store restarted and a transaction began
C4_Witness ==
    /\ lastUpd.valid /\ lastUpd.failed
    /\ lastUpd.work[USER].kv # lastUpd.pre[USER].kv
    /\ lastUpd.work[USER].seq # lastUpd.pre[USER].seq
    /\ epoch > 0
    /\ pc["g1"] = "infn"

\* at most one writable transaction is open
WriterExclusive == \A p, q \in Procs : tx[p].writable /\ tx[q].writable => p = q

\* C9: of two PUTs on one record with the same If-Match F that are both
\* pending at one time, if the first to return is answered 200 with a new
\* fingerprint then the other is answered 412 and the record stays as the
\* first left it; no two read-write transactions are open at one time.
C9_NoLostUpdate ==
    /\ WriterExclusive
    /\ \A p, q \in Procs :
           LET k == TargetKey(db, req[p])
           IN  (/\ p # q
                /\ pc[p] = "done" /\ pc[q] = "done"
                /\ req[p].kind = "PutUser" /\ req[q].kind = "PutUser"
                /\ TargetKey(db, req[q]) = k
                /\ req[q].ifMatch = req[p].ifMatch
                /\ req[q].no \in resp[p].overlap
                /\ resp[p].status = 200
                /\ resp[p].etag # req[p].ifMatch)
               => /\ resp[q].status = 412
                  /\ Fingerprint(USER, db[USER].kv[k]) = resp[p].etag

\* two such PUTs were answered, the first 200 and the second 412
C9_Witness ==
    \E p, q \in Procs :
        /\ p # q
        /\ pc[p] = "done" /\ pc[q] = "done"
        /\ req[p].kind = "PutUser" /\ req[q].kind = "PutUser"
        /\ TargetKey(db, req[q]) = TargetKey(db, req[p])
        /\ req[q].ifMatch = req[p].ifMatch
        /\ req[q].no \in resp[p].overlap
        /\ resp[p].status = 200 /\ resp[p].etag # req[p].ifMatch
        /\ resp[q].status = 412
        /\ UserApply(req[q].delta, RecordAt(db, USER, TargetKey(db, req[q])))
               # RecordAt(db, USER, TargetKey(db, req[q]))

\* the name a create request gives
GivenName(r) == IF r.kind = "CreateUser" THEN r.delta.UserName ELSE r.delta.GroupName

\* C11: every stored User or Group record has a non-zero Id that is the id of
\* the key it is stored under; a record that stays in the store keeps its Id
\* and its name through every request; a record that a create request
\* stores has the name the request gives.
C11_IdentityImmutable ==
    [][/\ \A ot \in Named :
              \A k \in DOMAIN db'[ot].kv :
                  RecordAt(db', ot, k).Id # 0 /\ u64tob(RecordAt(db', ot, k).Id) = k
       /\ \A ot \in Named :
              \A k \in DOMAIN db[ot].kv \cap DOMAIN db'[ot].kv :
                  /\ RecordAt(db', ot, k).Id = RecordAt(db, ot, k).Id
                  /\ NameOf(ot, db'[ot].kv[k]) = NameOf(ot, db[ot].kv[k])
       /\ \A p \in Procs :
              (Returns(p) /\ req[p].kind \in {"CreateUser", "CreateGroup"}
                   /\ resp'[p].status = 201)
              => \A k \in DOMAIN db'[TypeOf(req[p].kind)].kv \ DOMAIN db[TypeOf(req[p].kind)].kv :
                     NameOf(TypeOf(req[p].kind), db'[TypeOf(req[p].kind)].kv[k])
                         = GivenName(req[p])]_vars

\* a PUT that gives a user_name other than the stored one was answered 400
\* and the user has the name and the id it was created with
C11_Witness ==
    \E p \in Procs :
        LET k == TargetKey(db, req[p])
        IN  /\ pc[p] = "done" /\ req[p].kind = "PutUser" /\ resp[p].status = 400
            /\ req[p].delta.UserName # Nil
            /\ k \in DOMAIN db[USER].kv
            /\ NameOf(USER, db[USER].kv[k]) # req[p].delta.UserName
            /\ u64tob(RecordAt(db, USER, k).Id) = k

\* the requests that address one user or one group, by id or by name
Addressing == {"GetUser", "PutUser", "DeleteUser", "GetGroup", "PutGroup", "DeleteGroup"}

\* C17: a well-formed GET, PUT or DELETE that addresses, by id or by name, a
\* user or group that is not stored is answered 404 and leaves the store as
\* it was, for a PUT with or without If-Match.
C17_NotFound ==
    [][\A p \in Procs :
          (Returns(p) /\ req[p].kind \in Addressing
               /\ TargetKey(db, req[p]) \notin DOMAIN db[TypeOf(req[p].kind)].kv)
          => resp'[p].status = 404 /\ db' = db]_vars

\* a PUT with an If-Match header to a user that is not stored was answered 404
C17_Witness ==
    \E p \in Procs :
        /\ pc[p] = "done" /\ req[p].kind = "PutUser" /\ resp[p].status = 404
        /\ req[p].ifMatch # <<>>
        /\ TargetKey(db, req[p]) \notin DOMAIN db[USER].kv

\* fn's call on its Tx returns in this step; Made(p) is that call
CallStep(p) == pc[p] = "infn" /\ fn'[p].ops = fn[p].ops + 1
Made(p) == fn'[p].last

\* the records and the name index entries a transaction sees
Records(t) == t.data[t.ot].kv
Index(t) == t.data[ByName(t.ot)].kv

\* spellings of the names fn gives: Al, al, AL, aL, b1, B1
Spellings == {sAl, sal, <<65, 76>>, <<97, 76>>, sb1, <<66, 49>>}

\* fn is running on a Tx of a type that has a name index
InFn(p) == pc[p] = "infn" /\ tx[p].ot \in Named

\* C12: Associate(id2, m), called when the index maps lowercase(m) to an id1
\* other than id2 (Associate(id1, n) was called before, in this transaction
\* or in a committed one), returns Duplicate with the type, id1 and m, and
\* leaves the transaction as it was: Lookup of n, m still returns id1.  This
\* holds of the calls fn makes and of every call it could make next.
C12_AssociateDuplicate ==
    /\ [][\A p \in Procs :
             LET c == Made(p)
                 lc == ToLower(c.name)
                 id1 == btou64(Index(tx[p])[lc])
             IN  (CallStep(p) /\ c.op = "Associate" /\ lc \in DOMAIN Index(tx[p])
                      /\ id1 # c.id)
                 => /\ c.err = DuplicateError(tx[p].ot, id1, c.name)
                    /\ tx'[p] = tx[p]
                    /\ \A n \in Spellings :
                           ToLower(n) = lc
                           => TxLookup(tx'[p], n) = [id |-> id1, err |-> NoError]]_vars
    /\ [](\A p \in Procs :
             InFn(p)
             => \A m \in Spellings, id2 \in TxIds :
                    LET lc == ToLower(m)
                        id1 == btou64(Index(tx[p])[lc])
                        res == TxAssociate(tx[p], id2, m)
                    IN  (lc \in DOMAIN Index(tx[p]) /\ id1 # id2)
                        => /\ res.err = DuplicateError(tx[p].ot, id1, m)
                           /\ res.t = tx[p]
                           /\ \A n \in Spellings :
                                  ToLower(n) = lc
                                  => TxLookup(res.t, n) = [id |-> id1, err |-> NoError])

\* in one Update, Associate(id1, n) returned nil and then Associate(id2, m),
\* with another id and a name of other case, returned Duplicate
C12_Witness ==
    \E p \in Procs :
        /\ pc[p] = "infn" /\ tx[p].writable /\ fn[p].calls = 2
        /\ fn[p].last.op = "Associate" /\ fn[p].last.err.kind = "Duplicate"
        /\ fn[p].last.err.ExistingId # fn[p].last.id
        /\ fn[p].last.name # ToLower(fn[p].last.name)
        /\ Index(tx[p]) # Index(BeginTx(db, tx[p].ot, TRUE))

\* C13 as claimed: Associate(id, name) returns Duplicate only when the index
\* maps lowercase(name) to another id; when it maps lowercase(name) to id
\* itself, Associate does not return Duplicate and the entry stays.
C13_DuplicateOnlyForOtherId ==
    [][\A p \in Procs :
          LET c == Made(p)
              lc == ToLower(c.name)
          IN  (CallStep(p) /\ c.op = "Associate")
              => /\ c.err.kind = "Duplicate"
                        => lc \in DOMAIN Index(tx[p]) /\ Index(tx[p])[lc] # u64tob(c.id)
                 /\ (lc \in DOMAIN Index(tx[p]) /\ Index(tx[p])[lc] = u64tob(c.id))
                        => c.err.kind # "Duplicate" /\ Index(tx'[p])[lc] = u64tob(c.id)]_vars

\* Repo.View / Repo.Update of goroutine p returns in this step
Ends(p) == pc[p] = "infn" /\ pc'[p] = "done"

\* the committed store changes only when an Update whose fn returned nil
\* returns, and then becomes what fn left in its Tx; a transaction begins on
\* the committed store
CommittedOnly ==
    /\ (\A p \in Procs : ~Ends(p)) => db' = db
    /\ \A p \in Procs :
           /\ (Ends(p) /\ tx[p].writable /\ ~lastUpd'.failed) => db' = tx[p].data
           /\ (Ends(p) /\ ~(tx[p].writable /\ ~lastUpd'.failed)) => db' = db
           /\ (pc[p] # "infn" /\ pc'[p] = "infn") => tx'[p].data = db

\* C14: for User and Group, once Associate(id, n) has returned nil, Lookup(m)
\* returns id for every m with lowercase(m) = lowercase(n); Lookup returns
\* the id of the entry for the lowercased name whenever there is one, else
\* NotFound with the type and the name as given; an entry stays, in the
\* transaction through every call but Unassociate, and in the store once the
\* Update has committed.
C14_LookupAfterAssociate ==
    [][/\ CommittedOnly
       /\ \A p \in Procs :
              LET c == Made(p)
                  lc == ToLower(c.name)
              IN  /\ (CallStep(p) /\ c.op = "Associate" /\ c.err = NoError)
                      => \A m \in Spellings :
                             ToLower(m) = lc
                             => TxLookup(tx'[p], m) = [id |-> c.id, err |-> NoError]
                  /\ (CallStep(p) /\ c.op = "Lookup")
                      => IF lc \in DOMAIN Index(tx[p])
                         THEN c.err = NoError /\ c.rid = btou64(Index(tx[p])[lc])
                         ELSE c.err = NotFoundError(tx[p].ot, 0, c.name) /\ c.rid = 0
                  /\ (CallStep(p) /\ c.op # "Unassociate" /\ tx[p].ot \in Named)
                      => \A k \in DOMAIN Index(tx[p]) :
                             k \in DOMAIN Index(tx'[p]) /\ Index(tx'[p])[k] = Index(tx[p])[k]]_vars

\* an Update associated a name and committed; a later View looked the name
\* up in upper case and got the id
C14_Witness ==
    \E p \in Procs :
        /\ pc[p] = "infn" /\ ~tx[p].writable /\ fn[p].calls = 1
        /\ fn[p].last.op = "Lookup" /\ fn[p].last.err = NoError
        /\ fn[p].last.name # ToLower(fn[p].last.name)
        /\ fn[p].last.rid = btou64(db[ByName(tx[p].ot)].kv[ToLower(fn[p].last.name)])

\* the Tx differs from another in the records of its type at most
SameButRecords(t1, t2) ==
    /\ t1.ot = t2.ot /\ t1.writable = t2.writable
    /\ DOMAIN t1.data = DOMAIN t2.data
    /\ \A b \in DOMAIN t1.data :
           /\ t1.data[b].seq = t2.data[b].seq
           /\ b # t1.ot => t1.data[b] = t2.data[b]

\* what C15 says of Delete(id) called on t, answered res
DeleteContract(t, id, res) ==
    LET k == u64tob(id)
    IN  IF k \in DOMAIN Records(t)
        THEN t.writable
             => /\ res.err = NoError
                /\ SameButRecords(res.t, t)
                /\ DOMAIN Records(res.t) = DOMAIN Records(t) \ {k}
                /\ \A o \in DOMAIN Records(res.t) : Records(res.t)[o] = Records(t)[o]
                /\ TxGet(res.t, id) = [v |-> <<>>, err |-> NotFoundError(t.ot, id, <<>>)]
        ELSE /\ res.err = NotFoundError(t.ot, id, <<>>)
             /\ res.t = t

\* C15: in an Update, Delete(id) on an existing record removes that record and
\* nothing else, and a following Get(id) fails with NotFound(type, id);
\* Delete(id) on an id with no record fails with NotFound(type, id) and leaves
\* the transaction as it was.  This holds of the calls fn makes and of every
\* call it could make next.
C15_DeleteThenGet ==
    /\ [][\A p \in Procs :
             LET c == Made(p)
             IN  /\ (CallStep(p) /\ c.op = "Delete")
                        => DeleteContract(tx[p], c.id, [t |-> tx'[p], err |-> c.err])
                 /\ (CallStep(p) /\ c.op = "Get" /\ fn[p].last.op = "Delete"
                         /\ fn[p].last.err = NoError /\ fn[p].last.id = c.id)
                        => c.err = NotFoundError(tx[p].ot, c.id, <<>>)]_vars
    /\ [](\A p \in Procs :
             pc[p] = "infn"
             => \A id \in TxIds : DeleteContract(tx[p], id, TxDelete(tx[p], id)))

\* fn deleted a record that an earlier Update committed
C15_Witness ==
    \E p \in Procs :
        /\ pc[p] = "infn" /\ tx[p].writable
        /\ fn[p].last.op = "Delete" /\ fn[p].last.err = NoError
        /\ u64tob(fn[p].last.id) \in DOMAIN db[tx[p].ot].kv
        /\ u64tob(fn[p].last.id) \notin DOMAIN Records(tx[p])

\* the Tx differs from another in the entries of its name index at most
SameButIndex(t1, t2) ==
    /\ t1.ot = t2.ot /\ t1.writable = t2.writable
    /\ DOMAIN t1.data = DOMAIN t2.data
    /\ \A b \in DOMAIN t1.data :
           /\ t1.data[b].seq = t2.data[b].seq
           /\ b # ByName(t1.ot) => t1.data[b] = t2.data[b]

\* what C16 says of Unassociate(name) called on t, answered res
UnassociateContract(t, name, res) ==
    LET lc == ToLower(name)
    IN  /\ res.err = NoError
        /\ SameButIndex(res.t, t)
        /\ Records(res.t) = Records(t)
        /\ DOMAIN Index(res.t) = DOMAIN Index(t) \ {lc}
        /\ \A o \in DOMAIN Index(res.t) : Index(res.t)[o] = Index(t)[o]
        /\ lc \notin DOMAIN Index(t) => res.t = t

\* C16: in an Update on a type with a name index, Unassociate(name) returns no
\* error; without an entry for lowercase(name) it changes nothing, with one
\* it removes that entry and no other, and the records, the sequences and
\* the other buckets stay as they were.  This holds of the calls fn makes and
\* of every call it could make next.
C16_Unassociate ==
    /\ [][\A p \in Procs :
             LET c == Made(p)
             IN  (CallStep(p) /\ c.op = "Unassociate" /\ tx[p].writable)
                 => UnassociateContract(tx[p], c.name, [t |-> tx'[p], err |-> c.err])]_vars
    /\ [](\A p \in Procs :
             (InFn(p) /\ tx[p].writable)
             => \A n \in Spellings :
                    UnassociateContract(tx[p], n, TxUnassociate(tx[p], n)))

\* fn removed, by a name in upper case, an entry that an earlier Update
\* committed
C16_Witness ==
    \E p \in Procs :
        LET c == fn[p].last
        IN  /\ InFn(p) /\ tx[p].writable
            /\ c.op = "Unassociate" /\ c.err = NoError
            /\ c.name # ToLower(c.name)
            /\ ToLower(c.name) \in DOMAIN db[ByName(tx[p].ot)].kv
            /\ ToLower(c.name) \notin DOMAIN Index(tx[p])

\* fn is about to call Unassociate on an index of two entries
C16_TwoEntries ==
    \E p \in Procs :
        InFn(p) /\ tx[p].writable /\ Cardinality(DOMAIN Index(tx[p])) = 2

\* what C20 says of Put(id, v) called on t, answered res
PutContract(t, id, v, res) ==
    LET k == u64tob(id)
    IN  /\ res.err = NoError
        /\ SameButRecords(res.t, t)
        /\ DOMAIN Records(res.t) = DOMAIN Records(t) \cup {k}
        /\ \A o \in DOMAIN Records(t) \ {k} : Records(res.t)[o] = Records(t)[o]
        /\ TxGet(res.t, id) = [v |-> v, err |-> NoError]
        /\ TxPut(res.t, id, v) = [t |-> res.t, err |-> NoError]

\* what C20 says of Get(id) called on t, answered res
GetContract(t, id, res) ==
    IF u64tob(id) \in DOMAIN Records(t)
    THEN res = [v |-> Records(t)[u64tob(id)], err |-> NoError]
    ELSE res = [v |-> <<>>, err |-> NotFoundError(t.ot, id, <<>>)]

\* C20: in an Update, Put(id, v) returns no error and stores v under id,
\* whether or not the id had a record; a following Get(id) returns v; a
\* second Put(id, v) changes nothing more; the other records, the name index,
\* the sequences and the other buckets stay as they were.  Get(id) returns
\* the record stored under id, and NotFound(type, id) when there is none.
\* This holds of the calls fn makes and of every call it could make next.
C20_PutGet ==
    /\ [][\A p \in Procs :
             LET c == Made(p)
             IN  /\ (CallStep(p) /\ c.op = "Put" /\ tx[p].writable)
                        => PutContract(tx[p], c.id, c.v, [t |-> tx'[p], err |-> c.err])
                 /\ (CallStep(p) /\ c.op = "Get")
                        => /\ GetContract(tx[p], c.id, [v |-> c.rv, err |-> c.err])
                           /\ tx'[p] = tx[p]
                 /\ (CallStep(p) /\ c.op = "Get" /\ fn[p].last.op = "Put"
                         /\ fn[p].last.err = NoError /\ fn[p].last.id = c.id)
                        => c.rv = fn[p].last.v /\ c.err = NoError]_vars
    /\ [](\A p \in Procs :
             /\ (pc[p] = "infn" /\ tx[p].writable)
                    => \A id \in TxIds, v \in Payloads :
                           PutContract(tx[p], id, v, TxPut(tx[p], id, v))
             /\ pc[p] = "infn"
                    => \A id \in TxIds : GetContract(tx[p], id, TxGet(tx[p], id)))

\* fn put a payload under an id without a committed record and got it back
C20_Witness ==
    \E p \in Procs :
        LET c == fn[p].last
        IN  /\ pc[p] = "infn" /\ tx[p].writable /\ fn[p].calls = 2
            /\ c.op = "Get" /\ c.err = NoError
            /\ Records(tx[p])[u64tob(c.id)] = c.rv
            /\ u64tob(c.id) \notin DOMAIN db[tx[p].ot].kv

\* fn overwrote a record that an earlier Update committed
C20_Overwrite ==
    \E p \in Procs :
        LET c == fn[p].last
            k == u64tob(c.id)
        IN  /\ pc[p] = "infn" /\ tx[p].writable
            /\ c.op = "Put" /\ c.err = NoError
            /\ k \in DOMAIN db[tx[p].ot].kv
            /\ db[tx[p].ot].kv[k] # c.v /\ Records(tx[p])[k] = c.v

\* the ids of the pairs ForEach visited, in the order of the visits
Visited(rv) == [i \in 1..Len(rv) |-> rv[i].id]

\* what C19 says of the pairs rv that ForEach visits on t
ForEachContract(t, rv) ==
    /\ StrictlyIncreasing(Visited(rv))
    /\ Len(rv) = Cardinality(DOMAIN Records(t))
    /\ {u64tob(rv[i].id) : i \in 1..Len(rv)} = DOMAIN Records(t)
    /\ \A i \in 1..Len(rv) : rv[i].v = Records(t)[u64tob(rv[i].id)]

\* C19: ForEach visits every record of the primary bucket the transaction
\* sees, each once and with its payload, in strictly ascending order of the
\* numeric ids, whatever the order in which the records were inserted.  This
\* holds of the calls fn makes and of the one it could make next.
C19_ForEachAscending ==
    /\ [][\A p \in Procs :
             LET c == Made(p)
             IN  (CallStep(p) /\ c.op = "ForEach")
                 => ForEachContract(tx[p], c.rv) /\ tx'[p] = tx[p]]_vars
    /\ [](\A p \in Procs : pc[p] = "infn" => ForEachContract(tx[p], TxForEach(tx[p])))

\* 256 was committed first, 2 second, 1 was inserted last, and ForEach
\* visited 1, 2, 256
C19_Witness ==
    \E p \in Procs :
        /\ pc[p] = "infn"
        /\ bornLog[tx[p].ot] = <<256, 2>>
        /\ fn[p].last.op = "ForEach"
        /\ Visited(fn[p].last.rv) = <<1, 2, 256>>

\* goroutine p is inside Repo.View
InView(p) == pc[p] = "intx" /\ ~tx[p].writable

\* the ids of the records whose creating Update has committed
Born(ot) == {bornLog[ot][i] : i \in 1..Len(bornLog[ot])}

\* what a View sees is whole: a name that Lookup finds leads to a record that
\* Get finds and that has this name, and every record ForEach visits was
\* committed by the Update that created it, together with its index entry
WholeSnapshot(t) ==
    /\ \A n \in Spellings :
           LET l == TxLookup(t, n)
               g == TxGet(t, l.id)
           IN  l.err = NoError
               => g.err = NoError /\ ToLower(UnmarshalUser(g.v).UserName) = ToLower(n)
    /\ LET rv == TxForEach(t)
       IN  \A i \in 1..Len(rv) :
               LET u == UnmarshalUser(rv[i].v)
               IN  /\ rv[i].id \in Born(t.ot)
                   /\ u.Id = rv[i].id
                   /\ TxLookup(t, u.UserName) = [id |-> rv[i].id, err |-> NoError]

\* C18: the store changes only when an Update returns without error; a View
\* begins on the store as it is then and keeps seeing it, whatever writers
\* commit meanwhile; what it sees is whole (a name that Lookup finds leads to
\* a record that Get finds and that has this name; ForEach visits only
\* records of committed Updates, each with its index entry); GET by name
\* answers 200 with that record whenever Lookup finds the name.
C18_ViewSeesCommittedPrefix ==
    /\ [](\A p \in Procs : InView(p) => WholeSnapshot(tx[p]))
    /\ [][/\ db' # db
              => \E q \in Procs :
                     /\ pc[q] = "intx" /\ tx[q].writable /\ pc'[q] = "done"
                     /\ resp'[q].status \in {200, 201, 204}
          /\ \A p \in Procs :
                 /\ (pc[p] = "ready" /\ pc'[p] = "intx") => tx'[p].data = db
                 /\ (pc[p] = "intx" /\ pc'[p] = "intx") => tx'[p] = tx[p]
                 /\ (InView(p) /\ pc'[p] = "done") => db' = db
                 /\ (InView(p) /\ pc'[p] = "done" /\ req[p].kind = "GetUser"
                         /\ TargetKey(tx[p].data, req[p]) # <<>>)
                        => LET k == TargetKey(tx[p].data, req[p])
                               u == UnmarshalUser(Records(tx[p])[k])
                           IN  req[p].id = 0
                               => /\ resp'[p].status = 200
                                  /\ resp'[p].body = MarshalJSONUser(u)
                                  /\ ToLower(u.UserName) = ToLower(req[p].name)]_vars

\* GET by name was answered 404 from a snapshot taken before a concurrent
\* CreateUser committed the name, which is in the store now
C18_Witness ==
    \E p, q \in Procs :
        /\ p # q
        /\ pc[p] = "done" /\ req[p].kind = "GetUser" /\ req[p].id = 0
        /\ resp[p].status = 404
        /\ TargetKey(db, req[p]) \in DOMAIN db[USER].kv
        /\ pc[q] = "done" /\ req[q].kind = "CreateUser" /\ resp[q].status = 201
        /\ req[p].no \in resp[q].overlap

\* the buckets of the other types: their records, name indexes and sequences
Foreign(ot) == {USER, GROUP, BLOB, ByName(USER), ByName(GROUP)} \ {ot, ByName(ot)}

\* two stores agree on every bucket of the types other than ot
SameForeign(ot, d1, d2) ==
    \A b \in Foreign(ot) : b \in DOMAIN d1 /\ b \in DOMAIN d2 => d1[b] = d2[b]

\* C21: every call on a Tx of type T leaves the records, the name index and
\* the sequence of every other type as they were, and so does the commit or
\* rollback of the transaction.  This holds of the calls fn makes and of
\* every call it could make next.
C21_TypeIsolation ==
    /\ [][\A p \in Procs :
             /\ CallStep(p) => SameForeign(tx[p].ot, tx'[p].data, tx[p].data)
             /\ Ends(p) => SameForeign(tx[p].ot, db', db)]_vars
    /\ [](\A p \in Procs :
             pc[p] = "infn"
             => LET t == tx[p]
                    Same(t1) == SameForeign(t.ot, t1.data, t.data)
                IN  /\ Same(TxAllocateId(t).t)
                    /\ \A id \in TxIds :
                           /\ Same(TxDelete(t, id).t)
                           /\ \A v \in Payloads : Same(TxPut(t, id, v).t)
                           /\ \A n \in Spellings : Same(TxAssociate(t, id, n).t)
                    /\ \A n \in Spellings : Same(TxUnassociate(t, n).t))

\* an Update on users allocated its first id after an Update on groups had
\* committed an allocation and a name: the sequence and the index of the
\* groups are as that Update left them
C21_Witness ==
    \E p \in Procs :
        /\ pc[p] = "infn" /\ tx[p].ot = USER /\ tx[p].writable
        /\ fn[p].last.op = "AllocateId" /\ fn[p].last.rid = 1
        /\ tx[p].data[USER].seq = 1
        /\ tx[p].data[GROUP].seq = 1
        /\ db[GROUP].seq = 1 /\ db[USER].seq = 0

\* two stores hold the same records and index entries in every bucket
SameData(d1, d2) ==
    DOMAIN d1 = DOMAIN d2 /\ \A b \in DOMAIN d1 : d1[b].kv = d2[b].kv

\* p made a call of AllocateId that returned an id
Allocated(p) == CallStep(p) /\ Made(p).op = "AllocateId" /\ Made(p).err = NoError

\* C22 as claimed: after AllocateId has returned an id, the records and the
\* index entries are as before and Get of that id fails with NotFound.
C22_AllocatedIdNotFound ==
    [][\A p \in Procs :
          Allocated(p)
          => /\ SameData(tx'[p].data, tx[p].data)
             /\ TxGet(tx'[p], Made(p).rid).err = NotFoundError(tx[p].ot, Made(p).rid, <<>>)]_vars

\* C22: AllocateId advances the sequence of the type by one and returns it,
\* and leaves every record and index entry as it was: Get of any id, the
\* returned one included, and ForEach give what they gave before the call,
\* so Get of the returned id fails with NotFound unless a record had been
\* put under that id before; an Update that commits after calls of
\* AllocateId only leaves the records and index entries of the store as
\* they were.
C22_AllocateIdKeepsData ==
    [][\A p \in Procs :
          /\ Allocated(p)
                 => LET id == Made(p).rid
                    IN  /\ SameData(tx'[p].data, tx[p].data)
                        /\ id = tx[p].data[tx[p].ot].seq + 1
                        /\ tx'[p].data[tx[p].ot].seq = id
                        /\ TxForEach(tx'[p]) = TxForEach(tx[p])
                        /\ \A i \in TxIds \cup {id} : TxGet(tx'[p], i) = TxGet(tx[p], i)
                        /\ u64tob(id) \notin DOMAIN Records(tx[p])
                               => TxGet(tx'[p], id).err = NotFoundError(tx[p].ot, id, <<>>)
          /\ (Ends(p) /\ fn[p].calls > 0 /\ Len(fn[p].allocs) = fn[p].calls)
                 => SameData(db', db)]_vars

\* an Update allocated id 1 next to the record that an earlier Update had
\* put under id 2: Get of 1 still finds nothing
C22_Witness ==
    \E p \in Procs :
        /\ pc[p] = "infn" /\ tx[p].writable
        /\ fn[p].last.op = "AllocateId" /\ fn[p].last.err = NoError /\ fn[p].last.rid = 1
        /\ DOMAIN Records(tx[p]) = {u64tob(2)}
        /\ DOMAIN db[tx[p].ot].kv = {u64tob(2)}

\* C23: for the ids a and b that two callers gave to u64tob, each result
\* has exactly 8 bytes, btou64 of it is the id again, the results are equal
\* only for equal ids, and a < b exactly when the result for a precedes the
\* one for b in byte order.
C23_KeyEncoding ==
    \A p, q \in Procs :
        LET a == fn[p].last.id
            b == fn[q].last.id
            ka == fn[p].last.v
            kb == fn[q].last.v
        IN  (fn[p].last.op = "u64tob" /\ fn[q].last.op = "u64tob")
            => /\ Len(ka) = 8
               /\ \A i \in 1..Len(ka) : ka[i] \in 0..255
               /\ (a < b) <=> KeyLess(ka, kb)
               /\ (a = b) <=> (ka = kb)
               /\ btou64(ka) = a

\* 255 and 256 were encoded: the smaller id has the larger last byte
C23_Witness ==
    /\ fn["g1"].last.op = "u64tob" /\ fn["g1"].last.id = 255
    /\ fn["g2"].last.op = "u64tob" /\ fn["g2"].last.id = 256
    /\ fn["g1"].last.v[8] > fn["g2"].last.v[8]

\* C24 as claimed: btou64 of a byte string of a length other than 8,
\* shorter or longer, aborts and returns no id.
C24_OtherLengthsAbort ==
    \A p \in Procs :
        (fn[p].last.op = "btou64" /\ Len(fn[p].last.v) # 8) => fn[p].last.rid = Panic

\* C25 as claimed: while a View or Update transaction is running Repo.Close
\* has not been invoked, and no transaction begins once it has been.
C25_CloseAfterTransactions ==
    srv.repo # "open" => \A p \in Procs : pc[p] # "intx"

\* C26 as claimed: every call of Stop returns in the end, and the listener
\* is closed and Serve returns.
C26_StopReturns ==
    \A c \in Stoppers :
        /\ (srv.stop[c] = "sending") ~> (srv.stop[c] = "returned")
        /\ (srv.stop[c] = "sending") ~> (srv.listener = "closed" /\ srv.main # "serving")

\* C27: through the handlers, every stored record of a type has an id from
\* 1 to the sequence of the type; a create request that is answered 201
\* advances the sequence by one and stores its record under that number,
\* which had no record, and leaves every other record of the type as it
\* was; a PUT stores under a key that had a record.
C27_IdsWithinSequence ==
    /\ [](\A ot \in ObjectTypes : \A i \in Ids(db, ot) : 1 <= i /\ i <= db[ot].seq)
    /\ [][\A p \in Procs :
             LET ot == TypeOf(req[p].kind)
                 new == u64tob(db'[ot].seq)
             IN  /\ (Returns(p) /\ req[p].kind \in Creates /\ resp'[p].status = 201)
                        => /\ db'[ot].seq = db[ot].seq + 1
                           /\ new \notin DOMAIN db[ot].kv
                           /\ DOMAIN db'[ot].kv = DOMAIN db[ot].kv \cup {new}
                           /\ \A k \in DOMAIN db[ot].kv : db'[ot].kv[k] = db[ot].kv[k]
                 /\ (Returns(p) /\ req[p].kind \in Puts)
                        => DOMAIN db'[ot].kv = DOMAIN db[ot].kv]_vars

\* user 1 was created and deleted and a create was answered 201: the
\* record is stored under 2
C27_Witness ==
    \E p \in Procs :
        /\ pc[p] = "done" /\ req[p].kind = "CreateUser" /\ resp[p].status = 201
        /\ db[USER].seq = 2 /\ Ids(db, USER) = {2}

\* the body of a listing of the blobs with the ids of a set, in ascending
\* order
BlobListing(ids) ==
    LET refs == [i \in 1..Len(Ascending(ids)) |-> [id |-> Ascending(ids)[i]]]
    IN  <<91>> \o JSONBlobs(refs) \o <<93, 13, 10>>

\* C28: a blob that is stored stays stored with the same payload through
\* every request on any resource, refused methods on the blob itself
\* included, and through restarts; a create-blob answered 201 stores the
\* payload of the request under the id it answers; a GET of a stored blob is
\* answered 200 with its payload; a listing names every stored blob.
C28_BlobsWriteOnce ==
    [][/\ \A k \in DOMAIN db[BLOB].kv :
              k \in DOMAIN db'[BLOB].kv /\ db'[BLOB].kv[k] = db[BLOB].kv[k]
       /\ \A p \in Procs :
              LET r == req[p]
                  new == db'[BLOB].seq
              IN  /\ (Returns(p) /\ r.kind = "CreateBlob" /\ resp'[p].status = 201)
                         => /\ u64tob(new) \in DOMAIN db'[BLOB].kv
                            /\ db'[BLOB].kv[u64tob(new)] = r.delta.Blob
                            /\ resp'[p].body = JSONBlobReference(new) \o <<13, 10>>
                  /\ (Returns(p) /\ r.kind = "GetBlob" /\ u64tob(r.id) \in DOMAIN db[BLOB].kv)
                         => /\ resp'[p].status = 200
                            /\ resp'[p].body = db[BLOB].kv[u64tob(r.id)]
                  /\ (Returns(p) /\ r.kind = "ListBlobs")
                         => /\ resp'[p].status = 200
                            /\ resp'[p].body = BlobListing(Ids(db, BLOB))
                  /\ (Answers(p) /\ req'[p].kind \in {"PutBlob", "DeleteBlob"})
                         => resp'[p].status = 405 /\ db' = db]_vars

\* blob 1 was created, a DELETE of it was refused, and a GET of it was
\* answered with its payload
C28_Witness ==
    \E p \in Procs :
        /\ pc[p] = "done" /\ req[p].kind = "GetBlob" /\ req[p].id = 1 /\ req[p].no = 3
        /\ resp[p].status = 200 /\ resp[p].body = <<2, 3>>
        /\ db[BLOB].kv[u64tob(1)] = <<2, 3>>

====
